---- MODULE Spec2Model ----
(***************************************************************************)
(* Model of src/src/App.tsx: the App component's state (useState cells),   *)
(* its event handlers, and the two asynchronous handlers                   *)
(* handleImageSubmit and handleGenerateVideo, split at their await points. *)
(*                                                                         *)
(* An event handler reads the state of the render it was created in; the   *)
(* model takes that to be the current state when the handler is invoked.   *)
(* An async handler keeps the values it captured at invocation (apiKey,    *)
(* the video settings, the image transcript) across its awaits, and after  *)
(* each await applies its setState calls to the then current state.        *)
(* After the component is unmounted setState calls have no effect, while   *)
(* a running async handler keeps running.                                  *)
(***************************************************************************)
EXTENDS Integers, Sequences, FiniteSets, TLC

VARIABLES
    mounted,                \* the App component is mounted
    apiKey,
    isApiKeyModalOpen,
    apiKeyModal,            \* value and error of the ApiKeyModal component
    activeTab,
    imageMessages,
    imageInput,
    isImageLoading,
    imageError,
    imageReferenceImages,
    imageAttachmentError,
    videoMessages,
    videoPrompt,
    isVideoGenerating,
    videoError,
    videoStatus,
    videoAspectRatio,
    videoResolution,
    videoDuration,
    videoReferenceImage,
    imageJob,               \* the running handleImageSubmit invocation
    videoJob,               \* the running handleGenerateVideo invocation
    attachJob,              \* the running handleImageReferenceChange invocations
    videoReferenceJob,      \* the running handleVideoReferenceChange invocations
    revoked,                \* object URL -> number of URL.revokeObjectURL calls
    nextUrl,                \* number of URL.createObjectURL calls so far
    keyEpoch,               \* history: number of credential set/clear events
    lastOp                  \* history: the handler or continuation that ran last

vars == <<mounted, apiKey, isApiKeyModalOpen, apiKeyModal, activeTab,
          imageMessages, imageInput, isImageLoading, imageError,
          imageReferenceImages, imageAttachmentError,
          videoMessages, videoPrompt, isVideoGenerating, videoError,
          videoStatus, videoAspectRatio, videoResolution, videoDuration,
          videoReferenceImage, imageJob, videoJob, attachJob,
          videoReferenceJob, revoked, nextUrl, keyEpoch, lastOp>>

shellVars == <<apiKey, isApiKeyModalOpen, apiKeyModal, activeTab, keyEpoch>>
imageVars == <<imageMessages, imageInput, isImageLoading, imageError,
               imageReferenceImages, imageAttachmentError>>
videoVars == <<videoMessages, videoPrompt, isVideoGenerating, videoError,
               videoStatus, videoAspectRatio, videoResolution, videoDuration,
               videoReferenceImage>>
urlVars == <<revoked, nextUrl>>

----------------------------------------------------------------------------
(* Bounds of the model *)

MaxVideoJobs == 2           \* accepted video submissions per run
MaxImageJobs == 2           \* accepted image submissions per run
MaxKeyChanges == 1          \* credential set/clear events per run
MaxJobs == 2                \* submit events per run of Spec
MaxNotDone == 1             \* "not done" answers per video job in Spec
MaxAttachments == 2         \* attachment operations that start reading files
MaxSettingsJobs == 1        \* accepted video submissions per run of SpecSettings
MaxCancelJobs == 1          \* accepted video submissions per run of SpecCancel
MaxFlowEvents == 2          \* submits and file selections per run of SpecFlows
MaxAttachEvents == 3        \* file selections and submits per run of SpecAttach
MaxRequestEvents == 3       \* submits and file selections per run of SpecRequest
MaxCredentialEvents == 2    \* submits, file selections and key changes per run of SpecCredential

(* Program constants *)

MAX_VIDEO_POLLS == 45
MIN_VIDEO_DURATION == 5
MAX_VIDEO_DURATION == 8
MAX_IMAGE_REFERENCES == 3
DefaultVideoDuration == 6

NULL == "null"

\* Strings are sequences of characters; " " is white space.
Keys == {<<"k">>}
Prompts == {<<>>, <<" ">>, <<" ", "a">>}

RECURSIVE TrimStart(_)
TrimStart(s) == IF s # <<>> /\ Head(s) = " " THEN TrimStart(Tail(s)) ELSE s

RECURSIVE TrimEnd(_)
TrimEnd(s) ==
    IF s # <<>> /\ s[Len(s)] = " " THEN TrimEnd(SubSeq(s, 1, Len(s) - 1)) ELSE s

\* String.prototype.trim
Trim(s) == TrimEnd(TrimStart(s))

UrlIds == 1..MaxVideoJobs

----------------------------------------------------------------------------
(* Messages and parts *)

TextPart(text) == [type |-> "text", text |-> text]

\* Mutant of VideoPart: the metadata is read from the settings at completion.
VideoPartAtCompletion(url, job) ==
    [type |-> "video", objectUrl |-> url,
     resolution |-> videoResolution, aspectRatio |-> videoAspectRatio,
     durationSeconds |-> videoDuration]

\* The video part of the model message; its metadata comes from the settings
\* the handler invocation captured.
VideoPart(url, job) ==
    [type |-> "video", objectUrl |-> url,
     resolution |-> job.resolution, aspectRatio |-> job.aspectRatio,
     durationSeconds |-> job.durationSeconds]

ImagePart(mimeType, data) == [type |-> "image", mimeType |-> mimeType, data |-> data]

\* createId joins a random number and the clock reading. The value it
\* returns for a message is named by the call that asked for it: the flow,
\* the handler invocation and the role of the message under construction.
createId(flow, invocation, role) == <<flow, invocation, role>>

\* epoch is history: the credential epoch of the submission the message
\* originates from.
Message(id, role, parts, epoch) ==
    [id |-> id, role |-> role, parts |-> parts, epoch |-> epoch]

\* Mutant of AppendMessage: the new message is put in front.
AppendMessagePrepending(current, message) == <<message>> \o current

\* Mutant of AppendMessage: the new list is built without the current one.
AppendMessageDroppingCurrent(current, message) == <<message>>

\* The updater (current) => [...current, message] of setImageMessages and
\* setVideoMessages.
AppendMessage(current, message) == Append(current, message)

\* The positions <<i, j>> of the video parts of a list of messages.
VideoPartPositions(messages) ==
    UNION {{<<i, j>> : j \in {k \in 1..Len(messages[i].parts) :
                                messages[i].parts[k].type = "video"}} :
           i \in 1..Len(messages)}

\* The object URLs held by the video parts of a list of messages.
VideoUrls(messages) ==
    {messages[p[1]].parts[p[2]].objectUrl : p \in VideoPartPositions(messages)}

\* Mutant of releaseVideoResources: the part type test never matches a video
\* part, so nothing is revoked.
releaseNoVideoResources(messages) == revoked

\* releaseVideoResources: one URL.revokeObjectURL call per video part.
releaseVideoResources(messages) ==
    [u \in UrlIds |->
        revoked[u] + Cardinality({p \in VideoPartPositions(messages) :
                                    messages[p[1]].parts[p[2]].objectUrl = u})]

\* The ref is assigned from videoMessages by an effect after every render.
videoMessagesRef == videoMessages

----------------------------------------------------------------------------
(* Values thrown, remote results *)

Thrown(message) == [isError |-> TRUE, message |-> message]

\* What a remote call, fetch or blob() can reject with: an Error carrying a
\* message, or a value that is not an Error.
Rejections == {Thrown("Request failed"), [isError |-> FALSE, message |-> ""]}

TimeoutError ==
    Thrown("Video generation is taking longer than expected. Please try again later.")
NoVideosError == Thrown("No videos were generated.")
MissingUriError == Thrown("Generated video is missing a URI.")
FetchFailedError == Thrown("Failed to fetch video: 500 Internal Server Error")
NoContentError == Thrown("Gemini did not return any image content for this prompt.")

\* Mutant of VideoCatchMessage: the message is read without the instanceof
\* test.
VideoCatchMessageUntested(e) == e.message

\* catch block of handleGenerateVideo
VideoCatchMessage(e) ==
    IF e.isError THEN e.message ELSE "Failed to generate video. Please try again."

\* catch block of handleImageSubmit
ImageCatchMessage(e) ==
    IF e.isError THEN e.message ELSE "Failed to contact Gemini. Please try again."

\* The operation object returned by generateVideos / getVideosOperation:
\* videos is "none" (no generatedVideos), "nouri" (first video without uri)
\* or "ok".
Operations ==
    {[done |-> FALSE, videos |-> "none"]} \cup
    {[done |-> TRUE, videos |-> v] : v \in {"none", "nouri", "ok"}}

\* A mime type is the sequence of its two halves, <<>> when undefined.
ImagePng == <<"image", "png">>
TextPlain == <<"text", "plain">>

\* A content part of a generateContent response. An absent inlineData or
\* fileData has empty data / fileUri, an absent text is "".
ResponsePart(inlineData, fileData, text) ==
    [inlineData |-> inlineData, fileData |-> fileData, text |-> text]

NoInlineData == [data |-> "", mimeType |-> <<>>]
NoFileData == [fileUri |-> "", mimeType |-> <<>>]
InlineData(mimeType) == [data |-> "b64", mimeType |-> mimeType]

\* mimeType ?? 'image/png'
MimeOrPng(mimeType) == IF mimeType = <<>> THEN ImagePng ELSE mimeType

\* mimeType.startsWith('image/')
IsImageMime(mimeType) == Len(mimeType) > 0 /\ mimeType[1] = "image"

\* The candidate content parts generateContent can resolve with.
Responses ==
    { <<>>,
      <<ResponsePart(InlineData(TextPlain), NoFileData, "")>>,
      <<ResponsePart(NoInlineData, NoFileData, "t"),
        ResponsePart(InlineData(<<>>), NoFileData, "")>> }

\* The state of the ApiKeyModal component: the text of its input, which
\* starts as defaultValue, and its error. The component exists while
\* isApiKeyModalOpen holds; NoModal stands for its absence.
ModalState(defaultValue) == [value |-> defaultValue, error |-> NULL]
NoModal == ModalState(<<>>)

\* videoReferenceImage while no reference image is set (null).
NoReferenceImage == [base64 |-> "", mimeType |-> <<>>, name |-> 0]

NoStatus == [text |-> NULL, check |-> 0]
SubmittingStatus == [text |-> "Submitting video generation request", check |-> 0]
\* Mutant of CheckStatus: the status reports polls, not polls + 1.
CheckStatusZeroBased(n) == [text |-> "Generating video (check n)", check |-> n - 1]
CheckStatus(n) == [text |-> "Generating video (check n)", check |-> n]
FetchingStatus == [text |-> "Fetching generated video", check |-> 0]

\* lastOp: the name of the step ("other" for input changes, tab changes and
\* opening or closing the modal), the async invocation it belongs to and the
\* message of the error it caught.
NoJob == [id |-> 0]
Op(name) == [name |-> name, job |-> NoJob, error |-> NULL]
JobOp(name, j) == [name |-> name, job |-> [id |-> j.id], error |-> NULL]
\* A clearing step records what it discarded: the lengths of the two
\* transcripts and the object URLs the video transcript held.
ClearOp(name, images, videos, urls) ==
    [name |-> name,
     job |-> [id |-> 0, images |-> images, videos |-> videos, urls |-> urls],
     error |-> NULL]
FailOp(name, j, message) ==
    [name |-> name, job |-> [id |-> j.id], error |-> message]

----------------------------------------------------------------------------
Init ==
    /\ mounted = TRUE
    /\ apiKey \in Keys \cup {<<>>}          \* safeGetStoredKey()
    /\ isApiKeyModalOpen = (apiKey = <<>>)
    /\ apiKeyModal = NoModal
    /\ activeTab = "image"
    /\ imageMessages = <<>>
    /\ imageInput = <<>>
    /\ isImageLoading = FALSE
    /\ imageError = NULL
    /\ imageReferenceImages = <<>>
    /\ imageAttachmentError = NULL
    /\ videoMessages = <<>>
    /\ videoPrompt = <<>>
    /\ isVideoGenerating = FALSE
    /\ videoError = NULL
    /\ videoStatus = NoStatus
    /\ videoAspectRatio = "16:9"
    /\ videoResolution = "720p"
    /\ videoDuration = DefaultVideoDuration
    /\ videoReferenceImage = NoReferenceImage
    /\ imageJob = [started |-> 0, running |-> {}]
    /\ videoJob = [started |-> 0, running |-> {}]
    /\ attachJob = [started |-> 0, running |-> {}]
    /\ videoReferenceJob = [started |-> 0, running |-> {}]
    /\ revoked = [u \in UrlIds |-> 0]
    /\ nextUrl = 0
    /\ keyEpoch = 0
    /\ lastOp = Op("init")

----------------------------------------------------------------------------
(* Shell handlers *)

\* onChange of the image prompt textarea
SetImageInput(value) ==
    /\ mounted
    /\ imageInput # value
    /\ imageInput' = value
    /\ lastOp' = Op("other")
    /\ UNCHANGED <<mounted, attachJob, videoReferenceJob, shellVars, imageMessages, isImageLoading, imageError,
                   imageReferenceImages, imageAttachmentError, videoVars,
                   imageJob, videoJob, urlVars>>

\* onChange of the video prompt textarea
SetVideoPrompt(value) ==
    /\ mounted
    /\ videoPrompt # value
    /\ videoPrompt' = value
    /\ lastOp' = Op("other")
    /\ UNCHANGED <<mounted, attachJob, videoReferenceJob, shellVars, imageVars, videoMessages,
                   isVideoGenerating, videoError, videoStatus,
                   videoAspectRatio, videoResolution, videoDuration,
                   videoReferenceImage, imageJob, videoJob, urlVars>>

handleTabChange(nextTab) ==
    /\ mounted
    /\ activeTab' = nextTab
    /\ IF nextTab = "image"
       THEN /\ videoError' = NULL
            /\ videoStatus' = NoStatus
            /\ UNCHANGED <<imageError, imageAttachmentError>>
       ELSE /\ imageError' = NULL
            /\ imageAttachmentError' = NULL
            /\ UNCHANGED <<videoError, videoStatus>>
    /\ lastOp' = Op("other")
    /\ UNCHANGED <<mounted, attachJob, videoReferenceJob, apiKey, isApiKeyModalOpen, apiKeyModal, keyEpoch,
                   imageMessages, imageInput, isImageLoading,
                   imageReferenceImages, videoMessages, videoPrompt,
                   isVideoGenerating, videoAspectRatio, videoResolution,
                   videoDuration, videoReferenceImage, imageJob, videoJob,
                   urlVars>>

\* Mutant of handleReset: a reset of the video flow also clears the
\* generating flag.
handleResetCancelling ==
    /\ mounted
    /\ IF activeTab = "image"
       THEN /\ imageMessages' = <<>>
            /\ imageError' = NULL
            /\ imageReferenceImages' = <<>>
            /\ imageAttachmentError' = NULL
            /\ imageInput' = <<>>
            /\ UNCHANGED <<videoVars, revoked>>
       ELSE /\ revoked' = releaseVideoResources(videoMessages)
            /\ videoMessages' = <<>>
            /\ videoError' = NULL
            /\ videoStatus' = NoStatus
            /\ videoPrompt' = <<>>
            /\ videoReferenceImage' = NoReferenceImage
            /\ videoAspectRatio' = "16:9"
            /\ videoResolution' = "720p"
            /\ videoDuration' = DefaultVideoDuration
            /\ isVideoGenerating' = FALSE
            /\ UNCHANGED <<imageMessages, imageError, imageReferenceImages,
                           imageAttachmentError, imageInput>>
    /\ lastOp' = IF activeTab = "image"
                  THEN ClearOp("handleResetImage", Len(imageMessages), 0, {})
                  ELSE ClearOp("handleResetVideo", 0, Len(videoMessages),
                               VideoUrls(videoMessages))
    /\ UNCHANGED <<mounted, attachJob, videoReferenceJob, shellVars, isImageLoading, imageJob, videoJob,
                   nextUrl>>

handleReset ==
    /\ mounted
    /\ IF activeTab = "image"
       THEN /\ imageMessages' = <<>>
            /\ imageError' = NULL
            /\ imageReferenceImages' = <<>>
            /\ imageAttachmentError' = NULL
            /\ imageInput' = <<>>
            /\ UNCHANGED <<videoVars, revoked>>
       ELSE /\ revoked' = releaseVideoResources(videoMessages)
            /\ videoMessages' = <<>>
            /\ videoError' = NULL
            /\ videoStatus' = NoStatus
            /\ videoPrompt' = <<>>
            /\ videoReferenceImage' = NoReferenceImage
            /\ videoAspectRatio' = "16:9"
            /\ videoResolution' = "720p"
            /\ videoDuration' = DefaultVideoDuration
            /\ UNCHANGED <<imageMessages, imageError, imageReferenceImages,
                           imageAttachmentError, imageInput,
                           isVideoGenerating>>
    /\ lastOp' = IF activeTab = "image"
                  THEN ClearOp("handleResetImage", Len(imageMessages), 0, {})
                  ELSE ClearOp("handleResetVideo", 0, Len(videoMessages),
                               VideoUrls(videoMessages))
    /\ UNCHANGED <<mounted, attachJob, videoReferenceJob, shellVars, isImageLoading, imageJob, videoJob,
                   nextUrl>>

\* Mutant of ClearForCredentialChange: the reference image of the video flow
\* is kept.
ClearForCredentialChangeKeepingReference ==
    /\ imageMessages' = <<>>
    /\ revoked' = releaseVideoResources(videoMessages)
    /\ videoMessages' = <<>>
    /\ imageError' = NULL
    /\ imageAttachmentError' = NULL
    /\ videoError' = NULL
    /\ imageInput' = <<>>
    /\ imageReferenceImages' = <<>>
    /\ videoPrompt' = <<>>
    /\ videoStatus' = NoStatus
    /\ UNCHANGED videoReferenceImage

\* Mutant of ClearForCredentialChange: setImageMessages([]) is missing.
ClearForCredentialChangeKeepingImages ==
    /\ revoked' = releaseVideoResources(videoMessages)
    /\ videoMessages' = <<>>
    /\ imageError' = NULL
    /\ imageAttachmentError' = NULL
    /\ videoError' = NULL
    /\ imageInput' = <<>>
    /\ imageReferenceImages' = <<>>
    /\ videoPrompt' = <<>>
    /\ videoStatus' = NoStatus
    /\ videoReferenceImage' = NoReferenceImage
    /\ UNCHANGED imageMessages

\* The state both handleApiKeySave and handleClearApiKey reset.
ClearForCredentialChange ==
    /\ imageMessages' = <<>>
    /\ revoked' = releaseVideoResources(videoMessages)
    /\ videoMessages' = <<>>
    /\ imageError' = NULL
    /\ imageAttachmentError' = NULL
    /\ videoError' = NULL
    /\ imageInput' = <<>>
    /\ imageReferenceImages' = <<>>
    /\ videoPrompt' = <<>>
    /\ videoStatus' = NoStatus
    /\ videoReferenceImage' = NoReferenceImage

\* onSave of the ApiKeyModal, which exists only while the modal is open and
\* passes a trimmed, non-empty key.
handleApiKeySave(nextKey) ==
    /\ mounted
    /\ isApiKeyModalOpen
    /\ keyEpoch < MaxKeyChanges
    /\ apiKey' = nextKey
    /\ keyEpoch' = keyEpoch + 1
    /\ ClearForCredentialChange
    /\ isApiKeyModalOpen' = FALSE
    /\ apiKeyModal' = NoModal
    /\ lastOp' = ClearOp("handleApiKeySave", Len(imageMessages), Len(videoMessages),
                          VideoUrls(videoMessages))
    /\ UNCHANGED <<mounted, attachJob, videoReferenceJob, activeTab, isImageLoading, isVideoGenerating,
                   videoAspectRatio, videoResolution, videoDuration,
                   imageJob, videoJob, nextUrl>>

\* onClear of the ApiKeyModal; the "Remove key" button is rendered only
\* when a key is set (forceEntry false).
handleClearApiKey ==
    /\ mounted
    /\ isApiKeyModalOpen
    /\ apiKey # <<>>
    /\ keyEpoch < MaxKeyChanges
    /\ apiKey' = <<>>
    /\ keyEpoch' = keyEpoch + 1
    /\ ClearForCredentialChange
    /\ isApiKeyModalOpen' = TRUE
    /\ apiKeyModal' = [apiKeyModal EXCEPT !.value = <<>>]
    /\ lastOp' = ClearOp("handleClearApiKey", Len(imageMessages), Len(videoMessages),
                          VideoUrls(videoMessages))
    /\ UNCHANGED <<mounted, attachJob, videoReferenceJob, activeTab, isImageLoading, isVideoGenerating,
                   videoAspectRatio, videoResolution, videoDuration,
                   imageJob, videoJob, nextUrl>>

\* "Manage API key" button
OpenApiKeyModal ==
    /\ mounted
    /\ ~isApiKeyModalOpen
    /\ isApiKeyModalOpen' = TRUE
    /\ apiKeyModal' = ModalState(apiKey)
    /\ lastOp' = Op("other")
    /\ UNCHANGED <<mounted, attachJob, videoReferenceJob, apiKey, activeTab, keyEpoch, imageVars, videoVars,
                   imageJob, videoJob, urlVars>>

\* onClose of the ApiKeyModal: close button and backdrop act only when a key
\* is set (forceEntry false).
CloseApiKeyModal ==
    /\ mounted
    /\ isApiKeyModalOpen
    /\ apiKey # <<>>
    /\ isApiKeyModalOpen' = FALSE
    /\ apiKeyModal' = NoModal
    /\ lastOp' = Op("other")
    /\ UNCHANGED <<mounted, attachJob, videoReferenceJob, apiKey, activeTab, keyEpoch, imageVars, videoVars,
                   imageJob, videoJob, urlVars>>

\* What is typed into the input of the ApiKeyModal.
KeyDrafts == { <<>>, <<" ">>, <<" ", "k", " ">> }

\* onChange of the input of the ApiKeyModal
SetApiKeyModalValue(value) ==
    /\ mounted
    /\ isApiKeyModalOpen
    /\ apiKeyModal' = [apiKeyModal EXCEPT !.value = value]
    /\ lastOp' = Op("other")
    /\ UNCHANGED <<mounted, attachJob, videoReferenceJob, apiKey,
                   isApiKeyModalOpen, activeTab, keyEpoch, imageVars,
                   videoVars, imageJob, videoJob, urlVars>>

\* Mutant of KeyRejected: the text is tested as typed, not trimmed.
KeyRejectedUntrimmed(value, trimmed) == value = <<>>

\* if (!trimmed) of ApiKeyModal.handleSubmit
KeyRejected(value, trimmed) == trimmed = <<>>

\* ApiKeyModal.handleSubmit: a blank text sets the error of the modal; any
\* other text is trimmed and handed to onSave, which is handleApiKeySave.
ApiKeyModalSubmit ==
    /\ mounted
    /\ isApiKeyModalOpen
    /\ LET trimmed == Trim(apiKeyModal.value) IN
       IF KeyRejected(apiKeyModal.value, trimmed)
       THEN /\ apiKeyModal' = [apiKeyModal EXCEPT !.error = "API key is required"]
            /\ lastOp' = Op("apiKeySubmitRejected")
            /\ UNCHANGED <<mounted, attachJob, videoReferenceJob, apiKey,
                           isApiKeyModalOpen, activeTab, keyEpoch, imageVars,
                           videoVars, imageJob, videoJob, urlVars>>
       ELSE handleApiKeySave(trimmed)

\* Unmount: the cleanup of the mount effect releases the URLs of the ref.
\* The component instance and its state cells are discarded with it, which
\* the model records as every cell holding its initial value; the stored
\* key stays in localStorage.
Teardown ==
    /\ mounted
    /\ mounted' = FALSE
    /\ revoked' = releaseVideoResources(videoMessagesRef)
    /\ isApiKeyModalOpen' = (apiKey = <<>>)
    /\ apiKeyModal' = NoModal
    /\ activeTab' = "image"
    /\ imageMessages' = <<>>
    /\ imageInput' = <<>>
    /\ isImageLoading' = FALSE
    /\ imageError' = NULL
    /\ imageReferenceImages' = <<>>
    /\ imageAttachmentError' = NULL
    /\ videoMessages' = <<>>
    /\ videoPrompt' = <<>>
    /\ isVideoGenerating' = FALSE
    /\ videoError' = NULL
    /\ videoStatus' = NoStatus
    /\ videoAspectRatio' = "16:9"
    /\ videoResolution' = "720p"
    /\ videoDuration' = DefaultVideoDuration
    /\ videoReferenceImage' = NoReferenceImage
    /\ lastOp' = ClearOp("teardown", Len(imageMessages), Len(videoMessages),
                          VideoUrls(videoMessages))
    /\ UNCHANGED <<apiKey, keyEpoch, imageJob, videoJob, attachJob,
                   videoReferenceJob, nextUrl>>

----------------------------------------------------------------------------
(* handleGenerateVideo *)

\* Mutant of PollCeilingReached: the ceiling test is off by one.
PollCeilingReachedLate(polls) == polls > MAX_VIDEO_POLLS

\* while-loop ceiling test
PollCeilingReached(polls) == polls >= MAX_VIDEO_POLLS

\* Mutant of MissingCredential: the credential is not checked.
MissingCredentialUnchecked(key) == FALSE

\* !apiKey, the test before a submission goes out
MissingCredential(key) == key = <<>>

\* Mutant of VideoSubmitIgnored: the prompt is not checked.
VideoSubmitIgnoredGeneratingOnly(trimmed, generating) == generating

\* Mutant of VideoSubmitIgnored: the generating flag is not checked.
VideoSubmitIgnoredEmptyOnly(trimmed, generating) == trimmed = <<>>

\* Guard of handleGenerateVideo: empty prompt or a job already generating.
VideoSubmitIgnored(trimmed, generating) == trimmed = <<>> \/ generating

\* Synchronous part of handleGenerateVideo, up to the await of generateVideos.
handleGenerateVideo ==
    /\ mounted
    /\ LET trimmed == Trim(videoPrompt) IN
       IF VideoSubmitIgnored(trimmed, isVideoGenerating)
       THEN /\ lastOp' = Op("videoSubmitIgnored")
            /\ UNCHANGED <<isApiKeyModalOpen, apiKeyModal, videoMessages, videoPrompt,
                           videoError, videoStatus, isVideoGenerating,
                           videoJob>>
       ELSE IF MissingCredential(apiKey)
       THEN /\ isApiKeyModalOpen' = TRUE
            /\ apiKeyModal' = IF isApiKeyModalOpen THEN apiKeyModal
                              ELSE ModalState(apiKey)
            /\ lastOp' = Op("videoSubmitNoKey")
            /\ UNCHANGED <<videoMessages, videoPrompt, videoError,
                           videoStatus, isVideoGenerating, videoJob>>
       ELSE /\ videoJob.started < MaxVideoJobs
            /\ LET userParts ==
                       IF videoReferenceImage = NoReferenceImage
                       THEN <<TextPart(trimmed)>>
                       ELSE <<TextPart(trimmed),
                              ImagePart(videoReferenceImage.mimeType,
                                        videoReferenceImage.base64)>>
                   j == [id |-> videoJob.started + 1, pc |-> "submit",
                         polls |-> 0, calls |-> 0, trimmed |-> trimmed,
                         apiKey |-> apiKey, epoch |-> keyEpoch,
                         resolution |-> videoResolution,
                         aspectRatio |-> videoAspectRatio,
                         durationSeconds |-> videoDuration]
               IN /\ videoMessages' =
                         AppendMessage(videoMessages,
                                       Message(createId("video", j.id, "user"),
                                               "user", userParts, keyEpoch))
                  /\ videoJob' = [started |-> videoJob.started + 1,
                                  running |-> videoJob.running \cup {j}]
                  /\ lastOp' = JobOp("videoSubmit", j)
            /\ videoPrompt' = <<>>
            /\ videoError' = NULL
            /\ videoStatus' = SubmittingStatus
            /\ isVideoGenerating' = TRUE
            /\ UNCHANGED <<isApiKeyModalOpen, apiKeyModal>>
    /\ UNCHANGED <<mounted, attachJob, videoReferenceJob, apiKey, activeTab, keyEpoch, imageVars,
                   videoAspectRatio, videoResolution, videoDuration,
                   videoReferenceImage, imageJob, urlVars>>

\* Mutant of VideoFail: the catch block leaves the status in place.
VideoFailKeepingStatus(j, e) ==
    /\ videoJob' = [videoJob EXCEPT !.running = @ \ {j}]
    /\ IF mounted
       THEN /\ videoError' = VideoCatchMessage(e)
            /\ isVideoGenerating' = FALSE
       ELSE UNCHANGED <<videoError, isVideoGenerating>>
    /\ lastOp' = FailOp("videoFailed", j, VideoCatchMessage(e))
    /\ UNCHANGED <<mounted, attachJob, videoReferenceJob, shellVars, imageVars,
                   videoMessages, videoPrompt, videoStatus, videoAspectRatio,
                   videoResolution, videoDuration, videoReferenceImage,
                   imageJob, urlVars>>

\* Mutant of VideoFail: the finally block is missing.
VideoFailKeepingFlag(j, e) ==
    /\ videoJob' = [videoJob EXCEPT !.running = @ \ {j}]
    /\ IF mounted
       THEN /\ videoError' = VideoCatchMessage(e)
            /\ videoStatus' = NoStatus
       ELSE UNCHANGED <<videoError, videoStatus>>
    /\ lastOp' = FailOp("videoFailed", j, VideoCatchMessage(e))
    /\ UNCHANGED <<mounted, attachJob, videoReferenceJob, shellVars, imageVars, videoMessages, videoPrompt,
                   isVideoGenerating, videoAspectRatio, videoResolution,
                   videoDuration, videoReferenceImage, imageJob, urlVars>>

\* catch and finally blocks: the job ends in Failed.
VideoFail(j, e) ==
    /\ videoJob' = [videoJob EXCEPT !.running = @ \ {j}]
    /\ IF mounted
       THEN /\ videoError' = VideoCatchMessage(e)
            /\ videoStatus' = NoStatus
            /\ isVideoGenerating' = FALSE
       ELSE UNCHANGED <<videoError, videoStatus, isVideoGenerating>>
    /\ lastOp' = FailOp("videoFailed", j, VideoCatchMessage(e))
    /\ UNCHANGED <<mounted, attachJob, videoReferenceJob, shellVars, imageVars, videoMessages, videoPrompt,
                   videoAspectRatio, videoResolution, videoDuration,
                   videoReferenceImage, imageJob, urlVars>>

\* Mutant of VideoContinue: the status update also clears the image error.
VideoContinueClearingImageError(j, next, status, name) ==
    /\ videoJob' = [videoJob EXCEPT !.running = (@ \ {j}) \cup {next}]
    /\ videoStatus' = IF mounted THEN status ELSE videoStatus
    /\ imageError' = NULL
    /\ lastOp' = JobOp(name, next)
    /\ UNCHANGED <<mounted, attachJob, videoReferenceJob, shellVars, imageMessages, imageInput,
                   isImageLoading, imageReferenceImages, imageAttachmentError,
                   videoMessages, videoPrompt, isVideoGenerating, videoError,
                   videoAspectRatio, videoResolution, videoDuration,
                   videoReferenceImage, imageJob, urlVars>>

\* The job goes on to its next await with a new status string.
VideoContinue(j, next, status, name) ==
    /\ videoJob' = [videoJob EXCEPT !.running = (@ \ {j}) \cup {next}]
    /\ videoStatus' = IF mounted THEN status ELSE videoStatus
    /\ lastOp' = JobOp(name, next)
    /\ UNCHANGED <<mounted, attachJob, videoReferenceJob, shellVars, imageVars, videoMessages, videoPrompt,
                   isVideoGenerating, videoError, videoAspectRatio,
                   videoResolution, videoDuration, videoReferenceImage,
                   imageJob, urlVars>>

\* From the while condition to the next await, given the latest operation.
VideoAfterOperation(j, operation, name) ==
    IF ~operation.done
    THEN IF PollCeilingReached(j.polls)
         THEN VideoFail(j, TimeoutError)
         ELSE VideoContinue(j, [j EXCEPT !.polls = @ + 1, !.pc = "wait"],
                            CheckStatus(j.polls + 1), name)
    ELSE IF operation.videos = "none" THEN VideoFail(j, NoVideosError)
    ELSE IF operation.videos = "nouri" THEN VideoFail(j, MissingUriError)
    ELSE VideoContinue(j, [j EXCEPT !.pc = "fetch"], FetchingStatus, name)

\* await ai.models.generateVideos(payload) settles.
GenerateVideosResolved(j, operation) ==
    /\ j \in videoJob.running
    /\ j.pc = "submit"
    /\ VideoAfterOperation(j, operation, "generateVideosResolved")

GenerateVideosRejected(j, e) ==
    /\ j \in videoJob.running
    /\ j.pc = "submit"
    /\ VideoFail(j, e)

\* await wait(VIDEO_POLL_INTERVAL) ends; getVideosOperation is called.
WaitElapsed(j) ==
    /\ j \in videoJob.running
    /\ j.pc = "wait"
    /\ LET next == [j EXCEPT !.pc = "poll", !.calls = @ + 1] IN
        /\ videoJob' = [videoJob EXCEPT !.running = (@ \ {j}) \cup {next}]
        /\ lastOp' = JobOp("getVideosOperation", next)
    /\ UNCHANGED <<mounted, attachJob, videoReferenceJob, shellVars, imageVars, videoVars, imageJob, urlVars>>

\* await ai.operations.getVideosOperation({ operation }) settles.
GetVideosOperationResolved(j, operation) ==
    /\ j \in videoJob.running
    /\ j.pc = "poll"
    /\ VideoAfterOperation(j, operation, "getVideosOperationResolved")

GetVideosOperationRejected(j, e) ==
    /\ j \in videoJob.running
    /\ j.pc = "poll"
    /\ VideoFail(j, e)

\* Mutant of FetchResolved: response.ok is not tested.
FetchResolvedIgnoringStatus(j, ok) ==
    /\ j \in videoJob.running
    /\ j.pc = "fetch"
    /\ videoJob' = [videoJob EXCEPT
                       !.running = (@ \ {j}) \cup {[j EXCEPT !.pc = "blob"]}]
    /\ lastOp' = JobOp("fetchResolved", [j EXCEPT !.pc = "blob"])
    /\ UNCHANGED <<mounted, attachJob, videoReferenceJob, shellVars, imageVars, videoVars,
                   imageJob, urlVars>>

\* await fetch(fetchUrl) settles: response.ok, !response.ok or rejection.
FetchResolved(j, ok) ==
    /\ j \in videoJob.running
    /\ j.pc = "fetch"
    /\ IF ok
       THEN /\ videoJob' = [videoJob EXCEPT
                              !.running = (@ \ {j}) \cup {[j EXCEPT !.pc = "blob"]}]
            /\ lastOp' = JobOp("fetchResolved", [j EXCEPT !.pc = "blob"])
            /\ UNCHANGED <<mounted, attachJob, videoReferenceJob, shellVars, imageVars, videoVars, imageJob,
                           urlVars>>
       ELSE VideoFail(j, FetchFailedError)

FetchRejected(j, e) ==
    /\ j \in videoJob.running
    /\ j.pc = "fetch"
    /\ VideoFail(j, e)

\* await response.blob() resolves: the object URL is created and the model
\* message appended.
BlobResolved(j) ==
    /\ j \in videoJob.running
    /\ j.pc = "blob"
    /\ nextUrl' = nextUrl + 1
    /\ videoJob' = [videoJob EXCEPT !.running = @ \ {j}]
    /\ IF mounted
       THEN /\ videoMessages' =
                   AppendMessage(videoMessages,
                                 Message(createId("video", j.id, "model"),
                                         "model", <<VideoPart(nextUrl + 1, j)>>,
                                         j.epoch))
            /\ videoStatus' = NoStatus
            /\ isVideoGenerating' = FALSE
       ELSE UNCHANGED <<videoMessages, videoStatus, isVideoGenerating>>
    /\ lastOp' = JobOp("videoComplete", j)
    /\ UNCHANGED <<mounted, attachJob, videoReferenceJob, shellVars, imageVars, videoPrompt, videoError,
                   videoAspectRatio, videoResolution, videoDuration,
                   videoReferenceImage, imageJob, revoked>>

BlobRejected(j, e) ==
    /\ j \in videoJob.running
    /\ j.pc = "blob"
    /\ VideoFail(j, e)

----------------------------------------------------------------------------
(* Video settings *)

Digits == <<"0", "1", "2", "3", "4", "5", "6", "7", "8", "9">>

IsDigits(text) ==
    /\ text # <<>>
    /\ \A i \in 1..Len(text) : \E d \in 1..10 : Digits[d] = text[i]

DigitValue(c) == (CHOOSE d \in 1..10 : Digits[d] = c) - 1

RECURSIVE DecimalValue(_)
DecimalValue(text) ==
    IF text = <<>> THEN 0
    ELSE 10 * DecimalValue(SubSeq(text, 1, Len(text) - 1))
         + DigitValue(text[Len(text)])

\* Number(event.target.value) for the texts of integer literals: white
\* space is trimmed, the empty text is 0, a text that is no literal is NaN.
Number(text) ==
    LET t == Trim(text) IN
    IF t = <<>> THEN [isNaN |-> FALSE, value |-> 0]
    ELSE IF IsDigits(t) THEN [isNaN |-> FALSE, value |-> DecimalValue(t)]
    ELSE IF Head(t) = "-" /\ IsDigits(Tail(t))
    THEN [isNaN |-> FALSE, value |-> 0 - DecimalValue(Tail(t))]
    ELSE [isNaN |-> TRUE, value |-> 0]

\* The texts the duration input delivers.
DurationInputs ==
    { <<"2">>, <<"6">>, <<"2", "0">>, <<"-", "3">>, <<>>, <<"x">> }

AspectRatios == {"16:9", "9:16"}

Min(a, b) == IF a < b THEN a ELSE b
Max(a, b) == IF a > b THEN a ELSE b

\* Mutant of Clamp: the lower bound is not applied.
ClampUpperOnly(numeric) == Min(MAX_VIDEO_DURATION, numeric)

\* Math.min(MAX_VIDEO_DURATION, Math.max(MIN_VIDEO_DURATION, numeric))
Clamp(numeric) == Min(MAX_VIDEO_DURATION, Max(MIN_VIDEO_DURATION, numeric))

handleVideoDurationChange(text) ==
    /\ mounted
    /\ LET numeric == Number(text) IN
       videoDuration' = IF numeric.isNaN THEN DefaultVideoDuration
                        ELSE Clamp(numeric.value)
    /\ lastOp' = Op("other")
    /\ UNCHANGED <<mounted, shellVars, imageVars, videoMessages, videoPrompt,
                   isVideoGenerating, videoError, videoStatus,
                   videoAspectRatio, videoResolution, videoReferenceImage,
                   imageJob, videoJob, attachJob, videoReferenceJob, urlVars>>

\* onChange of the aspect ratio select
SetVideoAspectRatio(value) ==
    /\ mounted
    /\ videoAspectRatio # value
    /\ videoAspectRatio' = value
    /\ lastOp' = Op("other")
    /\ UNCHANGED <<mounted, shellVars, imageVars, videoMessages, videoPrompt,
                   isVideoGenerating, videoError, videoStatus,
                   videoResolution, videoDuration, videoReferenceImage,
                   imageJob, videoJob, attachJob, videoReferenceJob, urlVars>>

----------------------------------------------------------------------------
(* handleImageSubmit *)

\* Mutant of ImageSubmitIgnored: the loading flag is not checked.
ImageSubmitIgnoredEmptyOnly(trimmed, loading) == trimmed = <<>>

\* Guard of handleImageSubmit: empty prompt or a request already loading.
ImageSubmitIgnored(trimmed, loading) == trimmed = <<>> \/ loading

\* referenceParts: one image part per pending reference image.
ReferenceParts(images) ==
    [i \in 1..Len(images) |-> ImagePart(images[i].mimeType, images[i].base64)]

\* inlineReferenceParts
InlineReferenceParts(images) ==
    [i \in 1..Len(images) |->
        [inlineData |-> [data |-> images[i].base64, mimeType |-> images[i].mimeType]]]

\* Mutant of HistoryParts: the role of the message is not tested.
RECURSIVE HistoryPartsAnyRole(_, _)
HistoryPartsAnyRole(role, parts) ==
    IF parts = <<>> THEN <<>>
    ELSE LET part == Head(parts)
             rest == HistoryPartsAnyRole(role, Tail(parts))
         IN IF part.type = "text" THEN <<[text |-> part.text]>> \o rest
            ELSE IF part.type = "image" /\ part.data # ""
            THEN <<[inlineData |-> [data |-> part.data,
                                    mimeType |-> part.mimeType]]>> \o rest
            ELSE rest

\* The request parts of one transcript message: text parts, and the image
\* parts with data of user messages.
RECURSIVE HistoryParts(_, _)
HistoryParts(role, parts) ==
    IF parts = <<>> THEN <<>>
    ELSE LET part == Head(parts)
             rest == HistoryParts(role, Tail(parts))
         IN IF part.type = "text" THEN <<[text |-> part.text]>> \o rest
            ELSE IF part.type = "image" /\ part.data # "" /\ role = "user"
            THEN <<[inlineData |-> [data |-> part.data,
                                    mimeType |-> part.mimeType]]>> \o rest
            ELSE rest

\* Mutant of BuildHistory: a message without request parts is kept, with an
\* empty parts list.
RECURSIVE BuildHistoryKeepingEmpty(_)
BuildHistoryKeepingEmpty(messages) ==
    IF messages = <<>> THEN <<>>
    ELSE <<[role |-> Head(messages).role,
            parts |-> HistoryParts(Head(messages).role, Head(messages).parts)]>>
         \o BuildHistoryKeepingEmpty(Tail(messages))

\* history: one entry per message that has request parts.
RECURSIVE BuildHistory(_)
BuildHistory(messages) ==
    IF messages = <<>> THEN <<>>
    ELSE LET parts == HistoryParts(Head(messages).role, Head(messages).parts)
             rest == BuildHistory(Tail(messages))
         IN IF Len(parts) > 0
            THEN <<[role |-> Head(messages).role, parts |-> parts]>> \o rest
            ELSE rest

\* Mutant of ResponseImageParts: inline data of any mime type is taken for
\* an image.
RECURSIVE ResponseImagePartsAnyMime(_)
ResponseImagePartsAnyMime(parts) ==
    IF parts = <<>> THEN <<>>
    ELSE LET part == Head(parts)
             inline ==
                 IF part.inlineData.data # ""
                 THEN <<ImagePart(MimeOrPng(part.inlineData.mimeType),
                                  part.inlineData.data)>>
                 ELSE <<>>
             file ==
                 IF part.fileData.fileUri # ""
                 THEN <<ImagePart(MimeOrPng(part.fileData.mimeType), "")>>
                 ELSE <<>>
         IN inline \o file \o ResponseImagePartsAnyMime(Tail(parts))

\* imageParts of a response, in response order.
RECURSIVE ResponseImageParts(_)
ResponseImageParts(parts) ==
    IF parts = <<>> THEN <<>>
    ELSE LET part == Head(parts)
             inline ==
                 IF part.inlineData.data # ""
                    /\ IsImageMime(MimeOrPng(part.inlineData.mimeType))
                 THEN <<ImagePart(MimeOrPng(part.inlineData.mimeType),
                                  part.inlineData.data)>>
                 ELSE <<>>
             file ==
                 IF part.fileData.fileUri # ""
                 THEN <<ImagePart(MimeOrPng(part.fileData.mimeType), "")>>
                 ELSE <<>>
         IN inline \o file \o ResponseImageParts(Tail(parts))

\* Mutant of ResponseTextParts: the texts are collected in reverse order.
RECURSIVE ResponseTextPartsReversed(_)
ResponseTextPartsReversed(parts) ==
    IF parts = <<>> THEN <<>>
    ELSE LET part == Head(parts)
         IN ResponseTextPartsReversed(Tail(parts)) \o
            (IF part.text # "" THEN <<TextPart(part.text)>> ELSE <<>>)

\* textParts of a response, in response order.
RECURSIVE ResponseTextParts(_)
ResponseTextParts(parts) ==
    IF parts = <<>> THEN <<>>
    ELSE LET part == Head(parts)
         IN (IF part.text # "" THEN <<TextPart(part.text)>>
             ELSE <<>>) \o ResponseTextParts(Tail(parts))

\* Synchronous part of handleImageSubmit, up to the await of generateContent.
handleImageSubmit ==
    /\ mounted
    /\ LET trimmed == Trim(imageInput) IN
       IF ImageSubmitIgnored(trimmed, isImageLoading)
       THEN /\ lastOp' = Op("imageSubmitIgnored")
            /\ UNCHANGED <<isApiKeyModalOpen, apiKeyModal, imageVars, imageJob>>
       ELSE IF MissingCredential(apiKey)
       THEN /\ isApiKeyModalOpen' = TRUE
            /\ apiKeyModal' = IF isApiKeyModalOpen THEN apiKeyModal
                              ELSE ModalState(apiKey)
            /\ lastOp' = Op("imageSubmitNoKey")
            /\ UNCHANGED <<imageVars, imageJob>>
       ELSE /\ imageJob.started < MaxImageJobs
            /\ LET userParts ==
                       <<TextPart(trimmed)>> \o ReferenceParts(imageReferenceImages)
                   j == [id |-> imageJob.started + 1, pc |-> "generate",
                         trimmed |-> trimmed, apiKey |-> apiKey,
                         epoch |-> keyEpoch,
                         contents |->
                             BuildHistory(imageMessages) \o
                             <<[role |-> "user",
                                parts |-> <<[text |-> trimmed]>> \o
                                    InlineReferenceParts(imageReferenceImages)]>>]
               IN /\ imageMessages' =
                         AppendMessage(imageMessages,
                                       Message(createId("image", j.id, "user"),
                                               "user", userParts, keyEpoch))
                  /\ imageJob' = [started |-> imageJob.started + 1,
                                  running |-> imageJob.running \cup {j}]
                  /\ lastOp' = JobOp("imageSubmit", j)
            /\ imageInput' = <<>>
            /\ isImageLoading' = TRUE
            /\ imageError' = NULL
            /\ imageAttachmentError' = NULL
            /\ imageReferenceImages' = <<>>
            /\ UNCHANGED <<isApiKeyModalOpen, apiKeyModal>>
    /\ UNCHANGED <<mounted, attachJob, videoReferenceJob, apiKey, activeTab, keyEpoch, videoVars, videoJob,
                   urlVars>>

\* catch and finally blocks of handleImageSubmit.
ImageFail(j, e) ==
    /\ imageJob' = [imageJob EXCEPT !.running = @ \ {j}]
    /\ IF mounted
       THEN /\ imageError' = ImageCatchMessage(e)
            /\ isImageLoading' = FALSE
       ELSE UNCHANGED <<imageError, isImageLoading>>
    /\ lastOp' = FailOp("imageFailed", j, ImageCatchMessage(e))
    /\ UNCHANGED <<mounted, attachJob, videoReferenceJob, shellVars, imageMessages, imageInput,
                   imageReferenceImages, imageAttachmentError, videoVars,
                   videoJob, urlVars>>

\* await model.generateContent(...) resolves with the candidates' parts.
GenerateContentResolved(j, parts) ==
    /\ j \in imageJob.running
    /\ j.pc = "generate"
    /\ LET imageParts == ResponseImageParts(parts)
           textParts == ResponseTextParts(parts)
       IN IF Len(imageParts) = 0 /\ Len(textParts) = 0
          THEN ImageFail(j, NoContentError)
          ELSE /\ imageJob' = [imageJob EXCEPT !.running = @ \ {j}]
               /\ IF mounted
                  THEN /\ imageMessages' =
                              AppendMessage(imageMessages,
                                            Message(createId("image", j.id, "model"),
                                                    "model", imageParts \o textParts,
                                                    j.epoch))
                       /\ isImageLoading' = FALSE
                  ELSE UNCHANGED <<imageMessages, isImageLoading>>
               /\ lastOp' = JobOp("imageComplete", j)
               /\ UNCHANGED <<mounted, attachJob, videoReferenceJob, shellVars, imageInput, imageError,
                              imageReferenceImages, imageAttachmentError,
                              videoVars, videoJob, urlVars>>

GenerateContentRejected(j, e) ==
    /\ j \in imageJob.running
    /\ j.pc = "generate"
    /\ ImageFail(j, e)

----------------------------------------------------------------------------
(* handleImageReferenceChange, handleRemoveImageReference *)

\* A File of the file input: name, mime type and content ("" for an empty
\* file). readImageFile yields the content as base64.
File(name, type, content) == [name |-> name, type |-> type, content |-> content]

ImageFile(n) == File(n, ImagePng, "b64")
EmptyImageFile == File(6, ImagePng, "")
TextFile == File(7, TextPlain, "b64")

FiveFiles == [n \in 1..5 |-> ImageFile(n)]

\* event.target.files of one change event
Selections ==
    { <<>>, <<ImageFile(1)>>, <<ImageFile(2), ImageFile(3)>>, FiveFiles,
      <<EmptyImageFile>>, <<TextFile>>, <<TextFile, ImageFile(4)>> }

\* Mutant of IsImageFile: the type of the file is not tested.
IsImageFileAnyType(file) == TRUE

\* file.type.startsWith('image/')
IsImageFile(file) == IsImageMime(file.type)

\* The ReferenceImageState pushed for a file that was read.
ReferenceImage(file) ==
    [base64 |-> file.content, mimeType |-> file.type, name |-> file.name]

\* What readImageFile rejects with.
ReadErrors == {Thrown("Failed to read image file")}

AttachFullNotice == "You can attach up to 3 images per prompt."
AttachOnlyNotice == "Only 3 images can be attached per prompt."
AttachTypeNotice == "Reference files must be images (PNG, JPG, etc.)."

\* Mutant of SliceFiles: the selection is not cut to the remaining slots.
SliceFilesUncut(validFiles, remainingSlots) == validFiles

\* validFiles.slice(0, remainingSlots)
SliceFiles(validFiles, remainingSlots) ==
    SubSeq(validFiles, 1, IF Len(validFiles) < remainingSlots
                          THEN Len(validFiles) ELSE remainingSlots)

\* Synchronous part of handleImageReferenceChange, up to the first await of
\* readImageFile. remainingSlots is computed here, from the list as it is
\* when the files are selected.
handleImageReferenceChange(files) ==
    /\ mounted
    /\ LET remainingSlots == MAX_IMAGE_REFERENCES - Len(imageReferenceImages)
           validFiles == SelectSeq(files, IsImageFile)
       IN IF Len(files) = 0
          THEN /\ lastOp' = Op("attachIgnored")
               /\ UNCHANGED <<imageAttachmentError, attachJob>>
          ELSE IF remainingSlots <= 0
          THEN /\ imageAttachmentError' = AttachFullNotice
               /\ lastOp' = Op("attachFull")
               /\ UNCHANGED attachJob
          ELSE IF Len(validFiles) = 0
          THEN /\ imageAttachmentError' = AttachTypeNotice
               /\ lastOp' = Op("attachNoImages")
               /\ UNCHANGED attachJob
          ELSE /\ attachJob.started < MaxAttachments
               /\ LET a == [id |-> attachJob.started + 1,
                            files |-> files,
                            remainingSlots |-> remainingSlots,
                            validFiles |-> Len(validFiles),
                            filesToProcess |->
                                SliceFiles(validFiles, remainingSlots)]
                  IN /\ attachJob' = [started |-> attachJob.started + 1,
                                      running |-> attachJob.running \cup {a}]
                     /\ lastOp' = JobOp("attachStart", a)
               /\ UNCHANGED imageAttachmentError
    /\ UNCHANGED <<mounted, videoReferenceJob, shellVars, imageMessages, imageInput,
                   isImageLoading, imageError, imageReferenceImages,
                   videoVars, imageJob, videoJob, urlVars>>

\* The for loop has read every file of filesToProcess: the new images are
\* appended to the list as it is now. The awaits of the loop are one step,
\* no state is written between them.
ReadsResolved(a) ==
    /\ a \in attachJob.running
    /\ attachJob' = [attachJob EXCEPT !.running = @ \ {a}]
    /\ LET newImages ==
               [i \in 1..Len(a.filesToProcess) |->
                    ReferenceImage(a.filesToProcess[i])]
       IN IF mounted
          THEN /\ imageReferenceImages' = imageReferenceImages \o newImages
               /\ imageAttachmentError' =
                      IF a.validFiles > a.remainingSlots
                      THEN AttachOnlyNotice ELSE NULL
          ELSE UNCHANGED <<imageReferenceImages, imageAttachmentError>>
    /\ lastOp' = JobOp("attachComplete", a)
    /\ UNCHANGED <<mounted, videoReferenceJob, shellVars, imageMessages, imageInput,
                   isImageLoading, imageError, videoVars, imageJob, videoJob,
                   urlVars>>

\* A readImageFile of the loop rejects: catch block, nothing is attached.
ReadRejected(a, e) ==
    /\ a \in attachJob.running
    /\ attachJob' = [attachJob EXCEPT !.running = @ \ {a}]
    /\ imageAttachmentError' =
           IF mounted
           THEN (IF e.isError THEN e.message ELSE "Unable to read image file.")
           ELSE imageAttachmentError
    /\ lastOp' = FailOp("attachFailed", a, e.message)
    /\ UNCHANGED <<mounted, videoReferenceJob, shellVars, imageMessages, imageInput,
                   isImageLoading, imageError, imageReferenceImages,
                   videoVars, imageJob, videoJob, urlVars>>

\* current.filter((_, currentIndex) => currentIndex !== index), for the
\* Remove button of the index-th listed image.
handleRemoveImageReference(index) ==
    /\ mounted
    /\ index \in 1..Len(imageReferenceImages)
    /\ imageReferenceImages' =
           SubSeq(imageReferenceImages, 1, index - 1) \o
           SubSeq(imageReferenceImages, index + 1, Len(imageReferenceImages))
    /\ imageAttachmentError' = NULL
    /\ lastOp' = Op("removeReference")
    /\ UNCHANGED <<mounted, videoReferenceJob, shellVars, imageMessages, imageInput,
                   isImageLoading, imageError, videoVars, imageJob, videoJob,
                   attachJob, urlVars>>

----------------------------------------------------------------------------
(* The reference image of the video flow *)

\* event.target.files of one change event of the video reference input;
\* the handler looks at the first file only.
VideoSelections == { <<>>, <<TextFile>>, <<ImageFile(1)>>, <<ImageFile(2), TextFile>> }

\* Synchronous part of handleVideoReferenceChange, up to the await of
\* readImageFile.
handleVideoReferenceChange(files) ==
    /\ mounted
    /\ IF files = <<>>
       THEN /\ lastOp' = Op("videoReferenceIgnored")
            /\ UNCHANGED <<videoError, videoReferenceJob>>
       ELSE IF ~IsImageFile(files[1])
       THEN /\ videoError' = AttachTypeNotice
            /\ lastOp' = Op("videoReferenceNotImage")
            /\ UNCHANGED videoReferenceJob
       ELSE LET r == [id |-> videoReferenceJob.started + 1, file |-> files[1]]
            IN /\ videoReferenceJob' =
                      [started |-> videoReferenceJob.started + 1,
                       running |-> videoReferenceJob.running \cup {r}]
               /\ lastOp' = JobOp("videoReferenceStart", r)
               /\ UNCHANGED videoError
    /\ UNCHANGED <<mounted, attachJob, shellVars, imageVars, videoMessages,
                   videoPrompt, isVideoGenerating, videoStatus,
                   videoAspectRatio, videoResolution, videoDuration,
                   videoReferenceImage, imageJob, videoJob, urlVars>>

\* readImageFile resolved: the reference image is stored and the video
\* error cleared.
VideoReadResolved(r) ==
    /\ r \in videoReferenceJob.running
    /\ videoReferenceJob' = [videoReferenceJob EXCEPT !.running = @ \ {r}]
    /\ IF mounted
       THEN /\ videoReferenceImage' = ReferenceImage(r.file)
            /\ videoError' = NULL
       ELSE UNCHANGED <<videoReferenceImage, videoError>>
    /\ lastOp' = JobOp("videoReferenceComplete", r)
    /\ UNCHANGED <<mounted, attachJob, shellVars, imageVars, videoMessages,
                   videoPrompt, isVideoGenerating, videoStatus,
                   videoAspectRatio, videoResolution, videoDuration,
                   imageJob, videoJob, urlVars>>

\* readImageFile rejected: the catch block reports the message.
VideoReadRejected(r, e) ==
    /\ r \in videoReferenceJob.running
    /\ videoReferenceJob' = [videoReferenceJob EXCEPT !.running = @ \ {r}]
    /\ videoError' =
           IF mounted
           THEN (IF e.isError THEN e.message ELSE "Unable to read image file.")
           ELSE videoError
    /\ lastOp' = FailOp("videoReferenceFailed", r, e.message)
    /\ UNCHANGED <<mounted, attachJob, shellVars, imageVars, videoMessages,
                   videoPrompt, isVideoGenerating, videoStatus,
                   videoAspectRatio, videoResolution, videoDuration,
                   videoReferenceImage, imageJob, videoJob, urlVars>>

\* The Remove button of the preview, rendered while a reference image is
\* set.
handleClearVideoReference ==
    /\ mounted
    /\ videoReferenceImage # NoReferenceImage
    /\ videoReferenceImage' = NoReferenceImage
    /\ lastOp' = Op("clearVideoReference")
    /\ UNCHANGED <<mounted, attachJob, videoReferenceJob, shellVars, imageVars,
                   videoMessages, videoPrompt, isVideoGenerating, videoError,
                   videoStatus, videoAspectRatio, videoResolution,
                   videoDuration, imageJob, videoJob, urlVars>>

----------------------------------------------------------------------------
(* Specifications *)

\* A step of a running handleGenerateVideo. The remote answers "not done"
\* only to a job that has started fewer than limit polling rounds.
VideoJobStep(limit) ==
    \E j \in videoJob.running :
        \/ \E operation \in Operations :
              /\ operation.done \/ j.polls < limit
              /\ GenerateVideosResolved(j, operation)
        \/ \E e \in Rejections : GenerateVideosRejected(j, e)
        \/ WaitElapsed(j)
        \/ \E operation \in Operations :
              /\ operation.done \/ j.polls < limit
              /\ GetVideosOperationResolved(j, operation)
        \/ \E e \in Rejections : GetVideosOperationRejected(j, e)
        \/ \E ok \in BOOLEAN : FetchResolved(j, ok)
        \/ \E e \in Rejections : FetchRejected(j, e)
        \/ BlobResolved(j)
        \/ \E e \in Rejections : BlobRejected(j, e)

\* No limit on the remote: the ceiling of the loop is below it.
AnyNotDone == MAX_VIDEO_POLLS + 2

ImageJobStep ==
    \E j \in imageJob.running :
        \/ \E parts \in Responses : GenerateContentResolved(j, parts)
        \/ \E e \in Rejections : GenerateContentRejected(j, e)

CredentialStep ==
    \/ \E nextKey \in Keys : handleApiKeySave(nextKey)
    \/ handleClearApiKey
    \/ OpenApiKeyModal
    \/ CloseApiKeyModal

ShellStep ==
    \/ \E nextTab \in {"image", "video"} : handleTabChange(nextTab)
    \/ handleReset

VideoFlowStep(limit) ==
    \/ \E value \in Prompts : SetVideoPrompt(value)
    \/ handleGenerateVideo
    \/ VideoJobStep(limit)

ImageFlowStep ==
    \/ \E value \in Prompts : SetImageInput(value)
    \/ handleImageSubmit
    \/ ImageJobStep

\* The video flow with tab changes, resets, credential changes and unmount;
\* the remote may answer "not done" without limit.
NextVideo == ShellStep \/ CredentialStep \/ Teardown \/ VideoFlowStep(AnyNotDone)

SpecVideo == Init /\ [][NextVideo]_vars

\* The image flow with tab changes, resets, credential changes and unmount.
NextImage == ShellStep \/ CredentialStep \/ Teardown \/ ImageFlowStep

SpecImage == Init /\ [][NextImage]_vars

\* The whole component with both flows running side by side: at most
\* MaxJobs submit events in all, a video job is answered "not done" at most
\* MaxNotDone times, and the prompts typed are empty or non-blank.
JointPrompts == Prompts \ {<<" ">>}
JointBudget == videoJob.started + imageJob.started < MaxJobs

JointVideoSubmit == JointBudget /\ handleGenerateVideo
JointImageSubmit == JointBudget /\ handleImageSubmit

Next ==
    \/ ShellStep
    \/ CredentialStep
    \/ Teardown
    \/ \E value \in JointPrompts : SetVideoPrompt(value)
    \/ JointVideoSubmit
    \/ VideoJobStep(MaxNotDone)
    \/ \E value \in JointPrompts : SetImageInput(value)
    \/ JointImageSubmit
    \/ ImageJobStep

Spec == Init /\ [][Next]_vars

\* Both flows, submitting and running side by side, with every remote call,
\* fetch and timer eventually settling: a running async handler that can
\* take a step eventually takes one. The remote may answer "not done"
\* without limit.
VideoProgress == VideoJobStep(AnyNotDone)

NextLive ==
    \/ \E value \in JointPrompts : SetVideoPrompt(value)
    \/ JointVideoSubmit
    \/ VideoProgress
    \/ \E value \in JointPrompts : SetImageInput(value)
    \/ JointImageSubmit
    \/ ImageJobStep

SpecLive ==
    /\ Init
    /\ [][NextLive]_vars
    /\ WF_vars(VideoProgress)
    /\ WF_vars(ImageJobStep)

\* Steps of a running handleImageReferenceChange.
AttachJobStep ==
    \E a \in attachJob.running :
        \/ ReadsResolved(a)
        \/ \E e \in ReadErrors : ReadRejected(a, e)

\* The image flow with reference images: files are selected, read, removed
\* and submitted with a prompt, and the flow is reset. At most
\* MaxAttachEvents selections and submits are accepted in all.
AttachBudget == attachJob.started + imageJob.started < MaxAttachEvents

NextAttach ==
    \/ \E files \in Selections :
          AttachBudget /\ handleImageReferenceChange(files)
    \/ AttachJobStep
    \/ \E index \in 1..Len(imageReferenceImages) :
          handleRemoveImageReference(index)
    \/ \E value \in JointPrompts : SetImageInput(value)
    \/ AttachBudget /\ handleImageSubmit
    \/ ImageJobStep
    \/ handleReset

SpecAttach == Init /\ [][NextAttach]_vars

\* The video flow with its settings: the duration and the aspect ratio are
\* changed, before a submit and while a job is in flight, and the flow is
\* reset. At most MaxSettingsJobs submits are accepted.
SettingsBudget == videoJob.started < MaxSettingsJobs

SettingsStep ==
    \/ \E text \in DurationInputs : handleVideoDurationChange(text)
    \/ \E value \in AspectRatios : SetVideoAspectRatio(value)

NextSettings ==
    \/ SettingsStep
    \/ ShellStep
    \/ \E value \in JointPrompts : SetVideoPrompt(value)
    \/ SettingsBudget /\ handleGenerateVideo
    \/ VideoJobStep(MaxNotDone)

SpecSettings == Init /\ [][NextSettings]_vars

\* The video flow with resets, tab changes and credential changes while a
\* job is in flight; every remote call, fetch and timer of a running job
\* eventually settles. At most MaxCancelJobs submits are accepted and a job
\* is answered "not done" at most MaxNotDone times.
CancelBudget == videoJob.started < MaxCancelJobs

CancelProgress == VideoJobStep(MaxNotDone)

NextCancel ==
    \/ ShellStep
    \/ CredentialStep
    \/ \E value \in JointPrompts : SetVideoPrompt(value)
    \/ CancelBudget /\ handleGenerateVideo
    \/ CancelProgress

SpecCancel == Init /\ [][NextCancel]_vars /\ WF_vars(CancelProgress)

\* The two flows side by side, without resets, tab changes and credential
\* changes: prompts are typed, reference images selected, read and removed,
\* and both flows submit and run; at most MaxFlowEvents submits and file
\* selections in all, and a video job is answered "not done" at most
\* MaxNotDone times.
FlowsBudget ==
    videoJob.started + imageJob.started + attachJob.started < MaxFlowEvents

ImageFlowOps ==
    \/ FlowsBudget /\ handleImageSubmit
    \/ ImageJobStep
    \/ \E files \in Selections :
          FlowsBudget /\ handleImageReferenceChange(files)
    \/ AttachJobStep
    \/ \E index \in 1..Len(imageReferenceImages) :
          handleRemoveImageReference(index)

VideoFlowOps ==
    \/ FlowsBudget /\ handleGenerateVideo
    \/ VideoJobStep(MaxNotDone)

NextFlows ==
    \/ \E value \in JointPrompts : SetVideoPrompt(value)
    \/ \E value \in JointPrompts : SetImageInput(value)
    \/ VideoFlowOps
    \/ ImageFlowOps

SpecFlows == Init /\ [][NextFlows]_vars

\* The image flow with responses of several parts: texts, inline images
\* and file locators in mixed order, and a part that holds all three.
ImageJpeg == <<"image", "jpeg">>
ImageGif == <<"image", "gif">>

MixedResponses ==
    { <<ResponsePart(NoInlineData, NoFileData, "t1"),
        ResponsePart([data |-> "a", mimeType |-> ImagePng], NoFileData, ""),
        ResponsePart(NoInlineData, NoFileData, "t2"),
        ResponsePart([data |-> "b", mimeType |-> ImageJpeg], NoFileData, "")>>,
      <<ResponsePart(NoInlineData, [fileUri |-> "u", mimeType |-> ImageGif], "t1"),
        ResponsePart([data |-> "a", mimeType |-> <<>>], NoFileData, "t2")>>,
      <<ResponsePart([data |-> "a", mimeType |-> ImageJpeg],
                     [fileUri |-> "u", mimeType |-> <<>>], "t1"),
        ResponsePart([data |-> "x", mimeType |-> TextPlain], NoFileData, ""),
        ResponsePart(NoInlineData, NoFileData, "t2")>>,
      <<ResponsePart(NoInlineData, NoFileData, "t2"),
        ResponsePart(NoInlineData, NoFileData, "t1")>>,
      <<ResponsePart([data |-> "a", mimeType |-> ImagePng], NoFileData, ""),
        ResponsePart(NoInlineData, [fileUri |-> "u", mimeType |-> ImagePng], "")>> }

InterpretStep ==
    \E j \in imageJob.running :
        \E parts \in MixedResponses : GenerateContentResolved(j, parts)

NextInterpret ==
    \/ \E value \in JointPrompts : SetImageInput(value)
    \/ handleImageSubmit
    \/ InterpretStep
    \/ handleReset

SpecInterpret == Init /\ [][NextInterpret]_vars

\* Both flows with their reference images and the credential: inputs are
\* typed, files selected and read, prompts submitted and answered, and the
\* key is saved or removed. At most MaxCredentialEvents submits, file
\* selections and key changes are accepted in all.
VideoReferenceJobStep ==
    \E r \in videoReferenceJob.running :
        \/ VideoReadResolved(r)
        \/ \E e \in ReadErrors : VideoReadRejected(r, e)

CredentialBudget ==
    videoJob.started + imageJob.started + attachJob.started
        + videoReferenceJob.started + keyEpoch < MaxCredentialEvents

NextCredential ==
    \/ SetImageInput(<<" ", "a">>)
    \/ SetVideoPrompt(<<" ", "a">>)
    \/ CredentialBudget /\ handleImageSubmit
    \/ ImageJobStep
    \/ \E files \in {FiveFiles, <<TextFile>>} :
          CredentialBudget /\ handleImageReferenceChange(files)
    \/ AttachJobStep
    \/ CredentialBudget /\ handleGenerateVideo
    \/ VideoJobStep(MaxNotDone)
    \/ \E files \in VideoSelections :
          CredentialBudget /\ handleVideoReferenceChange(files)
    \/ VideoReferenceJobStep
    \/ handleClearVideoReference
    \/ \E nextKey \in Keys : CredentialBudget /\ handleApiKeySave(nextKey)
    \/ CredentialBudget /\ handleClearApiKey
    \/ OpenApiKeyModal
    \/ CloseApiKeyModal

SpecCredential == Init /\ [][NextCredential]_vars

\* Both flows with prompts that are empty, blank or not, started with and
\* without a stored key; at most MaxJobs submits are accepted in all.
NextBlank ==
    \/ \E value \in Prompts : SetVideoPrompt(value)
    \/ JointVideoSubmit
    \/ VideoJobStep(MaxNotDone)
    \/ \E value \in Prompts : SetImageInput(value)
    \/ JointImageSubmit
    \/ ImageJobStep

SpecBlank == Init /\ [][NextBlank]_vars

\* The image flow with reference images and responses of several parts:
\* at most MaxRequestEvents submits and file selections in all.
RequestBudget == imageJob.started + attachJob.started < MaxRequestEvents

NextRequest ==
    \/ \E value \in JointPrompts : SetImageInput(value)
    \/ RequestBudget /\ handleImageSubmit
    \/ InterpretStep
    \/ \E j \in imageJob.running :
          \E e \in Rejections : GenerateContentRejected(j, e)
    \/ \E files \in {<<ImageFile(1)>>, <<EmptyImageFile, TextFile>>} :
          RequestBudget /\ handleImageReferenceChange(files)
    \/ AttachJobStep

SpecRequest == Init /\ [][NextRequest]_vars

\* The key-entry modal with both flows: texts are typed into the modal and
\* submitted, the key is removed, the modal is opened and closed, and
\* prompts are submitted with and without a key. At most MaxJobs submits
\* are accepted in all.
NextModal ==
    \/ \E value \in KeyDrafts : SetApiKeyModalValue(value)
    \/ ApiKeyModalSubmit
    \/ handleClearApiKey
    \/ OpenApiKeyModal
    \/ CloseApiKeyModal
    \/ \E value \in JointPrompts : SetVideoPrompt(value)
    \/ JointVideoSubmit
    \/ VideoJobStep(MaxNotDone)
    \/ \E value \in JointPrompts : SetImageInput(value)
    \/ JointImageSubmit
    \/ ImageJobStep

SpecModal == Init /\ [][NextModal]_vars

----------------------------------------------------------------------------
(* Properties *)

\* The running video job that the step ends, if it ends one.
VideoJobEnded(j) == j \in videoJob.running /\ j \notin videoJob'.running

TimeoutMessage == VideoCatchMessage(TimeoutError)

\* C1: a video job never issues more than MAX_VIDEO_POLLS status polls; a
\* job still answered "not done" after its MAX_VIDEO_POLLS-th poll is not
\* left waiting for another poll but ends in Failed with the timeout error;
\* and a job that ends with the timeout error has issued exactly
\* MAX_VIDEO_POLLS polls and leaves the flow with that error and the
\* generating flag false.
C1_PollCeiling ==
    /\ [](\A j \in videoJob.running :
             /\ j.calls <= MAX_VIDEO_POLLS
             /\ j.pc = "wait" => j.calls < MAX_VIDEO_POLLS)
    /\ [][(lastOp'.name = "videoFailed" /\ lastOp'.error = TimeoutMessage)
          => /\ \E j \in videoJob.running :
                    VideoJobEnded(j) /\ j.calls = MAX_VIDEO_POLLS
             /\ mounted => videoError' = TimeoutMessage /\ ~isVideoGenerating']_vars

C1_Witness ==
    /\ mounted
    /\ lastOp.name = "videoFailed"
    /\ lastOp.error = TimeoutMessage
    /\ videoError = TimeoutMessage

\* C2: at most one handleGenerateVideo execution is unresolved at any time,
\* and a video submit issued while one is unresolved changes nothing: no
\* message, no new execution, no other state.
C2_OneVideoJob ==
    /\ [](Cardinality(videoJob.running) <= 1)
    /\ [][(handleGenerateVideo /\ videoJob.running # {})
          => UNCHANGED <<mounted, attachJob, shellVars, imageVars, videoVars, imageJob,
                         videoJob, urlVars>>]_vars

C2_Witness ==
    /\ lastOp.name = "videoSubmitIgnored"
    /\ videoJob.running # {}
    /\ Trim(videoPrompt) # <<>>
    /\ apiKey # <<>>

\* C3: every object URL created so far has been revoked exactly once if its
\* message is not in the video transcript, and not at all if it is.
C3_ReleasedExactlyOnce ==
    \A u \in 1..nextUrl :
        revoked[u] = (IF u \in VideoUrls(videoMessages) THEN 0 ELSE 1)

\* C4: a reset of the video flow revokes every object URL held by the video
\* transcript exactly once, and none of them was revoked before the reset.
C4_ResetReleases ==
    [][(handleReset /\ activeTab = "video")
       => \A u \in VideoUrls(videoMessages) :
              revoked[u] = 0 /\ revoked'[u] = 1]_vars

C4_Witness ==
    /\ lastOp.name = "handleResetVideo"
    /\ Cardinality(lastOp.job.urls) = 2
    /\ \A u \in lastOp.job.urls : revoked[u] = 1

\* C8: a step that ends a video job in Failed leaves a non-empty error
\* string, no status string and the generating flag false, and leaves the
\* video transcript as it was.
C8_FailedState ==
    [][(mounted /\ \E j \in videoJob.running : VideoJobEnded(j)
                /\ lastOp'.name = "videoFailed")
       => /\ videoError' \notin {NULL, ""}
          /\ videoError' = lastOp'.error
          /\ videoStatus' = NoStatus
          /\ ~isVideoGenerating'
          /\ videoMessages' = videoMessages]_vars

C8_Witness ==
    /\ mounted
    /\ lastOp.name = "videoFailed"
    /\ lastOp.error = "Failed to generate video. Please try again."
    /\ videoError = lastOp.error
    /\ Len(videoMessages) > 0

\* C5: a credential set or clear leaves both transcripts empty and revokes
\* every object URL the video transcript held.
C5_CredentialChangeClears ==
    [][(lastOp'.name \in {"handleApiKeySave", "handleClearApiKey"})
       => /\ imageMessages' = <<>>
          /\ videoMessages' = <<>>
          /\ \A u \in VideoUrls(videoMessages) :
                 revoked[u] = 0 /\ revoked'[u] = 1]_vars

C5_Witness ==
    /\ lastOp.name = "handleApiKeySave"
    /\ lastOp.job.images > 0
    /\ lastOp.job.videos > 0
    /\ lastOp.job.urls # {}
    /\ imageMessages = <<>>
    /\ videoMessages = <<>>
    /\ \A u \in lastOp.job.urls : revoked[u] = 1

\* The messages of both transcripts.
AllMessages ==
    {imageMessages[i] : i \in 1..Len(imageMessages)} \cup
    {videoMessages[i] : i \in 1..Len(videoMessages)}

\* C6: no transcript holds a message that originates from a submission made
\* before the latest credential set or clear.
C6_NoContextAcrossCredentials == \A message \in AllMessages : message.epoch = keyEpoch

\* C7 as amended: an accepted image submit appends exactly one user message
\* and a successful completion exactly one model message, the earlier
\* messages staying in place; no other step lengthens the image transcript;
\* and the transcript gets shorter only on a reset of the image flow or a
\* credential set or clear.
C7_TranscriptGrowth ==
    [][mounted' =>
        LET n == Len(imageMessages)
            appended(role) ==
                /\ Len(imageMessages') = n + 1
                /\ SubSeq(imageMessages', 1, n) = imageMessages
                /\ imageMessages'[n + 1].role = role
        IN /\ lastOp'.name = "imageSubmit" => appended("user")
           /\ lastOp'.name = "imageComplete" => appended("model")
           /\ lastOp'.name \notin {"imageSubmit", "imageComplete"}
                  => Len(imageMessages') <= n
           /\ Len(imageMessages') < n
                  => lastOp'.name \in {"handleResetImage", "handleApiKeySave",
                                       "handleClearApiKey"}]_vars

\* C7 as claimed: the image transcript gets shorter only on a reset.
C7_OnlyResetShortens ==
    [][(mounted' /\ Len(imageMessages') < Len(imageMessages))
       => lastOp'.name = "handleResetImage"]_vars

C7_Witness ==
    /\ mounted
    /\ lastOp.name = "imageComplete"
    /\ Len(imageMessages) = 4
    /\ \A i \in 1..4 : imageMessages[i].role = (IF i % 2 = 1 THEN "user" ELSE "model")

\* C10: a submit with a non-empty prompt and no credential leaves the modal
\* open, starts no remote call, and leaves the flow's transcript, error and
\* in-progress flag as they were.
C10_NoCredentialSubmit ==
    [][/\ (handleImageSubmit /\ Trim(imageInput) # <<>> /\ apiKey = <<>>)
          => /\ isApiKeyModalOpen'
             /\ UNCHANGED <<imageMessages, imageError, isImageLoading,
                            imageJob, videoJob>>
       /\ (handleGenerateVideo /\ Trim(videoPrompt) # <<>> /\ apiKey = <<>>)
          => /\ isApiKeyModalOpen'
             /\ UNCHANGED <<videoMessages, videoError, isVideoGenerating,
                            imageJob, videoJob>>]_vars

C10_Witness ==
    /\ lastOp.name \in {"imageSubmitNoKey", "videoSubmitNoKey"}
    /\ apiKey = <<>>
    /\ isApiKeyModalOpen
    /\ imageJob.running = {}
    /\ videoJob.running = {}
    /\ imageMessages = <<>>
    /\ videoMessages = <<>>

\* C9: every started video job ends with the generating flag false, and
\* every started image request ends with the loading flag false, whether it
\* succeeds or fails.
C9_ReturnsToIdle ==
    /\ (videoJob.running # {}) ~> (videoJob.running = {} /\ ~isVideoGenerating)
    /\ (imageJob.running # {}) ~> (imageJob.running = {} /\ ~isImageLoading)

C9_Witness ==
    /\ lastOp.name = "videoFailed"
    /\ lastOp.error = TimeoutMessage
    /\ videoError = TimeoutMessage
    /\ videoJob.running = {}
    /\ ~isVideoGenerating
    /\ Len(imageMessages) > 0

\* The parts of a list of messages or request contents, in order, each with
\* the role of the entry it belongs to.
RECURSIVE PartsWithRole(_)
PartsWithRole(entries) ==
    IF entries = <<>> THEN <<>>
    ELSE [k \in 1..Len(Head(entries).parts) |->
              [role |-> Head(entries).role, part |-> Head(entries).parts[k]]]
         \o PartsWithRole(Tail(entries))

IsTextRequest(e) == "text" \in DOMAIN e.part
IsInlineRequest(e) == "inlineData" \in DOMAIN e.part
IsTextEntry(e) == e.part.type = "text"
IsUserImageEntry(e) == e.part.type = "image" /\ e.part.data # "" /\ e.role = "user"
IsModelImageEntry(e) == e.part.type = "image" /\ e.part.data # "" /\ e.role = "model"

\* C11: the history an accepted image submit sends holds, in transcript
\* order, one text part for every text part of every message of the
\* transcript, with the role of its message, and one inline-image part for
\* every image part with data of a user message; every inline-image part of
\* the history is in an entry of role user, so none comes from a model
\* message.
C11_HistoryExcludesModelImages ==
    [][\A j \in imageJob'.running \ imageJob.running :
          LET sent == PartsWithRole(SubSeq(j.contents, 1, Len(j.contents) - 1))
              kept == PartsWithRole(imageMessages)
              sentTexts == SelectSeq(sent, IsTextRequest)
              keptTexts == SelectSeq(kept, IsTextEntry)
              sentImages == SelectSeq(sent, IsInlineRequest)
              keptImages == SelectSeq(kept, IsUserImageEntry)
          IN /\ Len(sentTexts) = Len(keptTexts)
             /\ \A i \in 1..Len(sentTexts) :
                    /\ sentTexts[i].part.text = keptTexts[i].part.text
                    /\ sentTexts[i].role = keptTexts[i].role
             /\ Len(sentImages) = Len(keptImages)
             /\ \A i \in 1..Len(sentImages) :
                    /\ sentImages[i].role = "user"
                    /\ sentImages[i].part.inlineData.data = keptImages[i].part.data
                    /\ sentImages[i].part.inlineData.mimeType
                           = keptImages[i].part.mimeType]_vars

\* A request is in flight whose transcript at submit held a user message
\* with a reference image and a model message with an image and a text.
C11_Witness ==
    /\ lastOp.name = "imageSubmit"
    /\ Len(imageMessages) = 3
    /\ \E j \in imageJob.running : Len(j.contents) = 3
    /\ LET kept == PartsWithRole(SubSeq(imageMessages, 1, 2))
       IN /\ Len(SelectSeq(kept, IsUserImageEntry)) > 0
          /\ Len(SelectSeq(kept, IsModelImageEntry)) > 0
          /\ \E i \in 1..Len(kept) : IsTextEntry(kept[i]) /\ kept[i].role = "model"

\* The selection holds image files only.
AllImageFiles(files) == \A i \in 1..Len(files) : IsImageFile(files[i])

\* C12: when the reads of a selection of k image files, made while m
\* reference images were attached, have finished, exactly the first
\* min(k, 3 - m) files of the selection are appended to the list, in
\* selection order, and the notice is non-empty if k > 3 - m; a selection
\* made while 3 images are attached attaches nothing and sets a non-empty
\* notice.
C12_AttachmentLimit ==
    [][/\ \A a \in attachJob.running :
            (mounted /\ ReadsResolved(a) /\ AllImageFiles(a.files)) =>
                LET k == Len(a.files)
                    m == MAX_IMAGE_REFERENCES - a.remainingSlots
                    n == IF k < MAX_IMAGE_REFERENCES - m
                         THEN k ELSE MAX_IMAGE_REFERENCES - m
                    before == Len(imageReferenceImages)
                IN /\ Len(imageReferenceImages') = before + n
                   /\ SubSeq(imageReferenceImages', 1, before) = imageReferenceImages
                   /\ \A i \in 1..n :
                          /\ imageReferenceImages'[before + i].name = a.files[i].name
                          /\ imageReferenceImages'[before + i].mimeType = a.files[i].type
                          /\ imageReferenceImages'[before + i].base64 = a.files[i].content
                   /\ k > MAX_IMAGE_REFERENCES - m
                          => imageAttachmentError' \notin {NULL, ""}
       /\ \A files \in Selections :
            (handleImageReferenceChange(files) /\ Len(files) > 0
               /\ Len(imageReferenceImages) = MAX_IMAGE_REFERENCES) =>
                /\ imageReferenceImages' = imageReferenceImages
                /\ attachJob' = attachJob
                /\ imageAttachmentError' \notin {NULL, ""}]_vars

\* 5 files selected with none attached: 3 attached, and the notice is set.
C12_Witness ==
    /\ lastOp.name = "attachComplete"
    /\ attachJob.started = 1
    /\ Len(imageReferenceImages) = 3
    /\ \A i \in 1..3 : imageReferenceImages[i].name = FiveFiles[i].name
    /\ imageAttachmentError = AttachOnlyNotice

\* The number of image parts of a message.
ImagePartCount(message) ==
    Cardinality({k \in 1..Len(message.parts) : message.parts[k].type = "image"})

\* C13: the pending reference-image list never holds more than
\* MAX_IMAGE_REFERENCES images, and no user message of the image transcript
\* carries more than MAX_IMAGE_REFERENCES reference images.
C13_AtMostThreeReferences ==
    /\ Len(imageReferenceImages) <= MAX_IMAGE_REFERENCES
    /\ \A i \in 1..Len(imageMessages) :
           imageMessages[i].role = "user"
               => ImagePartCount(imageMessages[i]) <= MAX_IMAGE_REFERENCES

\* C14: the stored video duration always lies in [5, 8]; a duration request
\* with the number d stores 5 if d < 5, 8 if d > 8 and d otherwise (2 gives
\* 5, 20 gives 8, 6 gives 6); and the configuration of an accepted video
\* submit carries the stored duration.
C14_DurationClamp ==
    /\ [](videoDuration \in MIN_VIDEO_DURATION..MAX_VIDEO_DURATION)
    /\ [][\A text \in DurationInputs :
             (handleVideoDurationChange(text) /\ ~Number(text).isNaN) =>
                 LET d == Number(text).value IN
                 /\ videoDuration' = (IF d < 5 THEN 5 ELSE IF d > 8 THEN 8 ELSE d)
                 /\ text = <<"2">> => videoDuration' = 5
                 /\ text = <<"2", "0">> => videoDuration' = 8
                 /\ text = <<"6">> => videoDuration' = 6]_vars
    /\ [][\A j \in videoJob'.running :
             j.id > videoJob.started =>
                 /\ j.durationSeconds = videoDuration
                 /\ j.durationSeconds \in 5..8]_vars

\* A job was submitted after a request of 20 and the duration then set to
\* 5 by a request below the range.
C14_Witness ==
    /\ \E j \in videoJob.running : j.pc = "submit" /\ j.durationSeconds = 8
    /\ videoDuration = 5

\* The response has no text, no file locator and no inline data of an image
\* mime type.
YieldsNoContent(parts) ==
    \A i \in 1..Len(parts) :
        /\ parts[i].text = ""
        /\ parts[i].fileData.fileUri = ""
        /\ \/ parts[i].inlineData.data = ""
           \/ /\ parts[i].inlineData.mimeType # <<>>
              /\ parts[i].inlineData.mimeType[1] # "image"

NoContentMessage == "Gemini did not return any image content for this prompt."

\* C15: when an image request resolves with a response that yields no image
\* part and no text part, the request ends as failed: the flow error is the
\* "no content" message and the image transcript is left as it was.
C15_NoContentFails ==
    [][\A j \in imageJob.running : \A parts \in Responses :
          (mounted /\ GenerateContentResolved(j, parts) /\ YieldsNoContent(parts))
              => /\ imageError' = NoContentMessage
                 /\ imageMessages' = imageMessages
                 /\ lastOp'.name = "imageFailed"
                 /\ j \notin imageJob'.running]_vars

\* A request failed with the "no content" message, after an earlier one had
\* succeeded.
C15_Witness ==
    /\ mounted
    /\ lastOp.name = "imageFailed"
    /\ lastOp.error = NoContentMessage
    /\ imageError = NoContentMessage
    /\ Len(imageMessages) = 3
    /\ imageMessages[3].role = "user"

\* C16: the step that resolves an image request appends exactly one model
\* message on success and sets the flow error on failure, and in both cases
\* leaves the loading flag false and the pending reference-image list empty.
C16_ResolutionSideEffects ==
    [][\A j \in imageJob.running :
          (mounted /\ j \notin imageJob'.running) =>
              /\ lastOp'.name = "imageComplete" =>
                     /\ Len(imageMessages') = Len(imageMessages) + 1
                     /\ imageMessages'[Len(imageMessages')].role = "model"
              /\ lastOp'.name = "imageFailed" =>
                     /\ imageError' \notin {NULL, ""}
                     /\ imageMessages' = imageMessages
              /\ lastOp'.name \in {"imageComplete", "imageFailed"}
              /\ ~isImageLoading'
              /\ imageReferenceImages' = <<>>]_vars

\* A step that clears state of the video flow or leaves its tab.
ClearingStep ==
    \/ handleReset
    \/ \E nextTab \in {"image", "video"} : handleTabChange(nextTab)
    \/ \E nextKey \in Keys : handleApiKeySave(nextKey)
    \/ handleClearApiKey

\* C17: a reset, a tab change or a credential change leaves a running video
\* job and the generating flag as they are; the generating flag is true as
\* long as a job is running; a running job eventually ends with the
\* generating flag false; and a completion appends to the transcript as it
\* is then, cleared or not, one model message with one video part whose
\* object URL is new and not revoked, and clears the status.
C17_LateCompletionTolerated ==
    /\ [][ClearingStep => UNCHANGED <<videoJob, isVideoGenerating>>]_vars
    /\ [](videoJob.running # {} => isVideoGenerating)
    /\ (videoJob.running # {}) ~> (videoJob.running = {} /\ ~isVideoGenerating)
    /\ [][lastOp'.name = "videoComplete" =>
            /\ Len(videoMessages') = Len(videoMessages) + 1
            /\ SubSeq(videoMessages', 1, Len(videoMessages)) = videoMessages
            /\ LET message == videoMessages'[Len(videoMessages')] IN
               /\ message.role = "model"
               /\ Len(message.parts) = 1
               /\ message.parts[1].type = "video"
               /\ message.parts[1].objectUrl = nextUrl'
               /\ nextUrl' = nextUrl + 1
               /\ revoked'[nextUrl'] = 0
            /\ videoStatus' = NoStatus
            /\ ~isVideoGenerating']_vars

\* A job completed after the credential was set or cleared while it was in
\* flight: the cleared transcript holds its model message only.
C17_Witness ==
    /\ lastOp.name = "videoComplete"
    /\ keyEpoch = 1
    /\ Len(videoMessages) = 1
    /\ videoMessages[1].role = "model"
    /\ videoMessages[1].epoch = 0
    /\ videoJob.running = {}
    /\ ~isVideoGenerating

\* C18: at most one image request is in flight at any time; an image submit
\* issued while the loading flag is set changes no state and starts no
\* request; and the step that resolves a request starts none, so a dropped
\* submit is not taken up later.
C18_OneImageRequest ==
    /\ [](Cardinality(imageJob.running) <= 1)
    /\ [](mounted /\ imageJob.running # {} => isImageLoading)
    /\ [][(handleImageSubmit /\ isImageLoading)
          => UNCHANGED <<mounted, shellVars, imageVars, videoVars, imageJob,
                         videoJob, attachJob, urlVars>>]_vars
    /\ [][(lastOp'.name \in {"imageComplete", "imageFailed"})
          => /\ imageJob'.running = {}
             /\ imageJob'.started = imageJob.started
             /\ mounted => ~isImageLoading']_vars

\* A submit with a prompt and a credential was dropped while a request was
\* in flight.
C18_Witness ==
    /\ lastOp.name = "imageSubmitIgnored"
    /\ imageJob.running # {}
    /\ isImageLoading
    /\ Trim(imageInput) # <<>>
    /\ apiKey # <<>>

\* C19: an accepted video submit captures the resolution, aspect ratio and
\* duration in effect at that step, and the video part appended when the
\* job completes carries the values the job captured, whatever the settings
\* are by then.
C19_MetadataFromSubmission ==
    /\ [][\A j \in videoJob'.running :
             j.id > videoJob.started =>
                 /\ j.resolution = videoResolution
                 /\ j.aspectRatio = videoAspectRatio
                 /\ j.durationSeconds = videoDuration]_vars
    /\ [][\A j \in videoJob.running :
             (VideoJobEnded(j) /\ lastOp'.name = "videoComplete") =>
                 LET part == videoMessages'[Len(videoMessages')].parts[1] IN
                 /\ part.type = "video"
                 /\ part.resolution = j.resolution
                 /\ part.aspectRatio = j.aspectRatio
                 /\ part.durationSeconds = j.durationSeconds]_vars

\* A job submitted with 9:16 and 8 seconds completed after a reset of the
\* video flow had put the settings back to their defaults.
C19_Witness ==
    /\ lastOp.name = "videoComplete"
    /\ Len(videoMessages) = 1
    /\ videoMessages[1].parts[1].aspectRatio = "9:16"
    /\ videoMessages[1].parts[1].durationSeconds = 8
    /\ videoAspectRatio = "16:9"
    /\ videoDuration = DefaultVideoDuration

\* A video job is suspended in wait(VIDEO_POLL_INTERVAL).
VideoWaiting == \E j \in videoJob.running : j.pc = "wait"

\* C20: a step of the video flow (submit, the end of a wait, the settling of
\* a remote call, fetch or blob, completion, failure) leaves the image
\* transcript, image error, loading flag and pending reference images as
\* they are; a step of the image flow (submit, resolution, selecting,
\* reading and removing reference images) leaves the video transcript, video
\* error, video status and generating flag as they are; and while a video
\* job waits between polls an image submit with a prompt and a credential
\* can start a request, and a running image request can resolve, the video
\* job staying as it is.
C20_FlowsIndependent ==
    /\ [][(handleGenerateVideo \/ VideoJobStep(AnyNotDone))
          => UNCHANGED <<imageMessages, imageError, isImageLoading,
                         imageReferenceImages>>]_vars
    /\ [][(\/ handleImageSubmit
           \/ ImageJobStep
           \/ \E files \in Selections : handleImageReferenceChange(files)
           \/ AttachJobStep
           \/ \E index \in 1..Len(imageReferenceImages) :
                 handleRemoveImageReference(index))
          => UNCHANGED <<videoMessages, videoError, videoStatus,
                         isVideoGenerating>>]_vars
    /\ []((/\ VideoWaiting
           /\ apiKey # <<>>
           /\ Trim(imageInput) # <<>>
           /\ ~isImageLoading
           /\ imageJob.started < MaxImageJobs)
          => ENABLED (handleImageSubmit /\ imageJob'.running # {}
                      /\ UNCHANGED videoJob))
    /\ []((VideoWaiting /\ imageJob.running # {})
          => ENABLED (ImageJobStep /\ imageJob'.running = {}
                      /\ UNCHANGED videoJob))

\* An image request completed while the video job was in its first wait.
C20_Witness ==
    /\ lastOp.name = "imageComplete"
    /\ \E j \in videoJob.running : j.pc = "wait" /\ j.polls = 1 /\ j.calls = 0
    /\ isVideoGenerating
    /\ videoStatus = CheckStatus(1)
    /\ Len(imageMessages) = 2
    /\ ~isImageLoading

\* C21: a job suspended in a wait has issued one poll less than it has
\* started waits, and any other running job as many; the number of polls
\* issued changes only at the end of a wait, by one, the poll being issued
\* then; a wait is entered only below the ceiling, with the status set to
\* the number of the wait; and a status visible during a wait shows the
\* ordinal of the poll that follows the wait.
C21_PollOrder ==
    /\ [](\A j \in videoJob.running :
             /\ j.pc = "wait" =>
                    /\ j.calls = j.polls - 1
                    /\ (mounted /\ videoStatus # NoStatus)
                           => videoStatus.check = j.calls + 1
             /\ j.pc # "wait" => j.calls = j.polls)
    /\ [][\A j \in videoJob.running : \A k \in videoJob'.running :
             (k.id = j.id /\ k.calls # j.calls) =>
                 /\ j.pc = "wait"
                 /\ k.pc = "poll"
                 /\ k.calls = j.calls + 1]_vars
    /\ [][\A j \in videoJob.running : \A k \in videoJob'.running :
             (k.id = j.id /\ k.pc = "wait" /\ j.pc # "wait") =>
                 /\ j.pc \in {"submit", "poll"}
                 /\ j.polls < MAX_VIDEO_POLLS
                 /\ k.polls = j.polls + 1
                 /\ mounted => videoStatus'.check = k.calls + 1]_vars

\* A job is in its third wait after two polls, the status showing check 3.
C21_Witness ==
    /\ mounted
    /\ \E j \in videoJob.running : j.pc = "wait" /\ j.polls = 3 /\ j.calls = 2
    /\ videoStatus.check = 3

\* The step ends job j in Failed with the given message, creating no object
\* URL and leaving the transcript as it was.
FailsWith(j, message) ==
    /\ VideoJobEnded(j)
    /\ lastOp'.name = "videoFailed"
    /\ lastOp'.error = message
    /\ mounted => videoError' = message
    /\ nextUrl' = nextUrl
    /\ videoMessages' = videoMessages

\* C22: a job goes on to the retrieval only from an operation that is done
\* and holds a first video with a locator, and to the blob only from a
\* retrieval that succeeded; it completes, creating the object URL, only
\* from there. A done operation without videos fails with "No videos were
\* generated.", one whose first video has no locator with "Generated video
\* is missing a URI.", and a retrieval that is not ok with "Failed to fetch
\* video:" and the status, each without an object URL or a model message.
C22_CompleteOnlyAfterRetrieval ==
    [][\A j \in videoJob.running :
          /\ \A operation \in Operations :
                 ((GenerateVideosResolved(j, operation)
                   \/ GetVideosOperationResolved(j, operation))
                  /\ operation.done) =>
                     /\ operation.videos = "none" =>
                            FailsWith(j, "No videos were generated.")
                     /\ operation.videos = "nouri" =>
                            FailsWith(j, "Generated video is missing a URI.")
                     /\ operation.videos = "ok" =>
                            /\ [j EXCEPT !.pc = "fetch"] \in videoJob'.running
                            /\ nextUrl' = nextUrl
          /\ FetchResolved(j, FALSE) =>
                 FailsWith(j, "Failed to fetch video: 500 Internal Server Error")
          /\ \A k \in videoJob'.running :
                 (k.id = j.id /\ k.pc # j.pc) =>
                     /\ k.pc = "fetch" =>
                            \E operation \in Operations :
                                /\ operation.done
                                /\ operation.videos = "ok"
                                /\ \/ GenerateVideosResolved(j, operation)
                                   \/ GetVideosOperationResolved(j, operation)
                     /\ k.pc = "blob" => FetchResolved(j, TRUE)
          /\ (VideoJobEnded(j) /\ lastOp'.name = "videoComplete") =>
                 /\ j.pc = "blob"
                 /\ nextUrl' = nextUrl + 1
          /\ nextUrl' # nextUrl => lastOp'.name = "videoComplete"]_vars

\* A retrieval that was not ok ended the job without an object URL.
C22_Witness ==
    /\ mounted
    /\ lastOp.name = "videoFailed"
    /\ lastOp.error = "Failed to fetch video: 500 Internal Server Error"
    /\ videoError = lastOp.error
    /\ nextUrl = 0
    /\ Len(videoMessages) = 1

\* The image parts one response part gives rise to, as <<mime type, data>>:
\* its inline data if of an image type, then its file locator.
ImagesOf(part) ==
    (IF part.inlineData.data # ""
        /\ (part.inlineData.mimeType = <<>> \/ part.inlineData.mimeType[1] = "image")
     THEN <<<<IF part.inlineData.mimeType = <<>> THEN ImagePng
              ELSE part.inlineData.mimeType, part.inlineData.data>>>>
     ELSE <<>>)
    \o (IF part.fileData.fileUri # ""
        THEN <<<<IF part.fileData.mimeType = <<>> THEN ImagePng
                 ELSE part.fileData.mimeType, "">>>>
        ELSE <<>>)

HasText(part) == part.text # ""

\* C23: the model message appended for a response holds first image parts
\* only, then text parts only; its text parts are the non-empty texts of the
\* response in response order, and its image parts are the images of the
\* response in response order.
C23_ImagesThenTexts ==
    [][\A j \in imageJob.running : \A response \in MixedResponses :
          (mounted /\ GenerateContentResolved(j, response)) =>
              LET parts == imageMessages'[Len(imageMessages')].parts
                  images == SelectSeq(parts, LAMBDA p : p.type = "image")
                  texts == SelectSeq(parts, LAMBDA p : p.type = "text")
                  sentTexts == SelectSeq(response, HasText)
                  sentImages ==
                      ImagesOf(response[1]) \o ImagesOf(response[2])
                      \o (IF Len(response) > 2 THEN ImagesOf(response[3]) ELSE <<>>)
                      \o (IF Len(response) > 3 THEN ImagesOf(response[4]) ELSE <<>>)
              IN /\ imageMessages'[Len(imageMessages')].role = "model"
                 /\ parts = images \o texts
                 /\ Len(texts) = Len(sentTexts)
                 /\ \A i \in 1..Len(texts) : texts[i].text = sentTexts[i].text
                 /\ Len(images) = Len(sentImages)
                 /\ \A i \in 1..Len(images) :
                        /\ images[i].mimeType = sentImages[i][1]
                        /\ images[i].data = sentImages[i][2]]_vars

\* The response text, image, text, image was appended as image, image,
\* text, text.
C23_Witness ==
    /\ lastOp.name = "imageComplete"
    /\ Len(imageMessages) = 2
    /\ LET parts == imageMessages[2].parts IN
       /\ Len(parts) = 4
       /\ parts[1].type = "image" /\ parts[1].data = "a"
       /\ parts[2].type = "image" /\ parts[2].data = "b"
       /\ parts[3].type = "text" /\ parts[3].text = "t1"
       /\ parts[4].type = "text" /\ parts[4].text = "t2"

\* A step from transcript before to transcript after that leaves it alone,
\* adds one message at its end or empties it.
AppendOrClear(before, after) ==
    \/ after = before
    \/ /\ Len(after) = Len(before) + 1
       /\ \A i \in 1..Len(before) : after[i] = before[i]
    \/ after = <<>>

DistinctIds(messages) ==
    \A i, k \in 1..Len(messages) : i # k => messages[i].id # messages[k].id

CredentialChanged ==
    /\ keyEpoch' = keyEpoch + 1
    /\ lastOp'.name \in {"handleApiKeySave", "handleClearApiKey"}

\* C25: right after handleApiKeySave or handleClearApiKey the image input,
\* the video prompt, the image error, the attachment error, the video
\* error, the video status, the pending reference images and the reference
\* image of the video flow are empty or null.
C25_CredentialChangeResets ==
    [][CredentialChanged =>
          /\ imageInput' = <<>>
          /\ videoPrompt' = <<>>
          /\ imageError' = NULL
          /\ imageAttachmentError' = NULL
          /\ videoError' = NULL
          /\ videoStatus' = NoStatus
          /\ imageReferenceImages' = <<>>
          /\ videoReferenceImage' = NoReferenceImage]_vars

\* The key was removed while a video job was running and showing its
\* status: the job still runs and the status is gone.
C25_Witness ==
    /\ lastOp.name = "handleClearApiKey"
    /\ \E j \in videoJob.running : j.epoch = 0 /\ j.pc = "wait"
    /\ isVideoGenerating
    /\ keyEpoch = 1
    /\ videoStatus = NoStatus /\ videoPrompt = <<>>

\* The state of the App component and its running handlers.
stateVars ==
    <<mounted, apiKey, isApiKeyModalOpen, activeTab, keyEpoch, imageVars,
      videoVars, imageJob, videoJob, attachJob, videoReferenceJob, urlVars>>

\* C26: a submit of a prompt that is empty after trimming changes no state
\* in either flow (transcripts, errors, status, in-progress flags and modal
\* visibility included) and starts no remote call, with or without a
\* credential.
C26_BlankSubmitIgnored ==
    [][/\ (Trim(imageInput) = <<>> /\ handleImageSubmit)
              => UNCHANGED <<stateVars, apiKeyModal>>
       /\ (Trim(videoPrompt) = <<>> /\ handleGenerateVideo)
              => UNCHANGED <<stateVars, apiKeyModal>>]_vars

\* A prompt of one space was submitted in the video flow, with no key
\* stored and no job running.
C26_Witness ==
    /\ lastOp.name = "videoSubmitIgnored"
    /\ videoPrompt = <<" ">>
    /\ apiKey = <<>>
    /\ ~isVideoGenerating

\* C27: while the generating flag is false the video status is null; a
\* status is shown only while the flag is set and a job is running.
C27_StatusOnlyWhileGenerating ==
    /\ (mounted /\ ~isVideoGenerating) => videoStatus = NoStatus
    /\ (mounted /\ videoStatus # NoStatus)
           => isVideoGenerating /\ videoJob.running # {}

\* The one job of the run has failed: the flag is down and the status is
\* gone.
C27_Witness ==
    /\ mounted
    /\ lastOp.name = "videoFailed"
    /\ videoJob.started = 1 /\ videoJob.running = {}
    /\ ~isVideoGenerating
    /\ videoError = TimeoutMessage \/ videoError = "Request failed"
    /\ videoStatus = NoStatus

\* A part of a transcript message that is replayed in a request: a text,
\* or an image with data of a user message.
Replayable(role, part) ==
    \/ part.type = "text"
    \/ part.type = "image" /\ part.data # "" /\ role = "user"

RequestPartOf(part) ==
    IF part.type = "text" THEN [text |-> part.text]
    ELSE [inlineData |-> [data |-> part.data, mimeType |-> part.mimeType]]

HasReplayablePart(message) ==
    \E i \in 1..Len(message.parts) : Replayable(message.role, message.parts[i])

\* C28: the request of handleImageSubmit holds one entry for each message,
\* in order, of the transcript as it was before the new user message was
\* appended, a message without a replayable part left out and no entry
\* with an empty parts list, followed by one user entry with the trimmed
\* prompt and the pending reference images; the new prompt is in no other
\* entry than those of earlier messages.
C28_RequestContents ==
    [][\A j \in imageJob'.running :
          j.id > imageJob.started =>
              LET kept == SelectSeq(imageMessages, HasReplayablePart)
                  n == Len(kept)
              IN /\ Len(j.contents) = n + 1
                 /\ \A i \in 1..n :
                        LET replayed ==
                                SelectSeq(kept[i].parts,
                                          LAMBDA p : Replayable(kept[i].role, p))
                        IN /\ j.contents[i].role = kept[i].role
                           /\ j.contents[i].parts # <<>>
                           /\ Len(j.contents[i].parts) = Len(replayed)
                           /\ \A k \in 1..Len(replayed) :
                                  j.contents[i].parts[k] = RequestPartOf(replayed[k])
                 /\ j.contents[n + 1].role = "user"
                 /\ Len(j.contents[n + 1].parts) = 1 + Len(imageReferenceImages)
                 /\ j.contents[n + 1].parts[1] = [text |-> Trim(imageInput)]
                 /\ \A k \in 1..Len(imageReferenceImages) :
                        j.contents[n + 1].parts[k + 1] =
                            [inlineData |->
                                [data |-> imageReferenceImages[k].base64,
                                 mimeType |-> imageReferenceImages[k].mimeType]]
                 /\ Len(imageMessages') = Len(imageMessages) + 1]_vars

\* A second prompt was submitted with a reference image after an answer of
\* images only: the transcript holds three messages and the request two
\* entries, the second with the prompt and the image.
C28_Witness ==
    /\ lastOp.name = "imageSubmit"
    /\ Len(imageMessages) = 3
    /\ imageMessages[2].role = "model"
    /\ \E j \in imageJob.running :
          /\ j.id = 2
          /\ Len(j.contents) = 2
          /\ Len(j.contents[1].parts) = 1
          /\ Len(j.contents[2].parts) = 2

\* A selection of one or more files of which none is of an image type.
NoImageAmong(files) ==
    /\ files # <<>>
    /\ \A i \in 1..Len(files) :
          files[i].type = <<>> \/ files[i].type[1] # "image"

IsNotice(error) == error # NULL /\ error # ""

\* C29: when the reading of a file of a selection fails, no file of that
\* selection is added to the pending list and the attachment error is set;
\* a selection of one or more files of which none is an image, or one made
\* while MAX_IMAGE_REFERENCES images are attached, adds nothing, starts no
\* reading and sets a non-empty attachment error.
C29_AttachAllOrNothing ==
    /\ [][\A a \in attachJob.running : \A e \in ReadErrors :
             (mounted /\ ReadRejected(a, e)) =>
                 /\ imageReferenceImages' = imageReferenceImages
                 /\ IsNotice(imageAttachmentError')]_vars
    /\ [][\A files \in Selections :
             (/\ files # <<>>
              /\ NoImageAmong(files)
                    \/ Len(imageReferenceImages) >= MAX_IMAGE_REFERENCES
              /\ handleImageReferenceChange(files)) =>
                 /\ imageReferenceImages' = imageReferenceImages
                 /\ attachJob' = attachJob
                 /\ IsNotice(imageAttachmentError')]_vars

\* With one image attached, the reading of a second selection has failed:
\* the list still holds that one image and the error is shown.
C29_Witness ==
    /\ lastOp.name = "attachFailed"
    /\ attachJob.started = 2 /\ attachJob.running = {}
    /\ Len(imageReferenceImages) = 1
    /\ imageAttachmentError = "Failed to read image file"

\* C30: a save leaves a key that is trimmed and not empty; the submit of a
\* text that is empty after trimming sets the error 'API key is required'
\* and changes neither the key nor the transcripts nor any other state,
\* the modal staying open; while no key is set the modal is open, and it
\* is closed only by the save of a key.
C30_BlankKeyRejected ==
    /\ []((mounted /\ apiKey = <<>>) => isApiKeyModalOpen)
    /\ [][(mounted /\ apiKey = <<>> /\ ~isApiKeyModalOpen') =>
             /\ lastOp'.name = "handleApiKeySave"
             /\ apiKey' # <<>>]_vars
    /\ [][(Trim(apiKeyModal.value) = <<>> /\ ApiKeyModalSubmit) =>
             /\ apiKeyModal'.error = "API key is required"
             /\ apiKeyModal'.value = apiKeyModal.value
             /\ UNCHANGED stateVars]_vars
    /\ [][(keyEpoch' = keyEpoch + 1 /\ lastOp'.name = "handleApiKeySave") =>
             /\ apiKey' # <<>>
             /\ apiKey' = Trim(apiKey')
             /\ apiKey' = Trim(apiKeyModal.value)]_vars

\* With the key removed, a text of one space was submitted in the modal:
\* the error is shown, no key is set and the modal is open.
C30_Witness ==
    /\ lastOp.name = "apiKeySubmitRejected"
    /\ keyEpoch = 1
    /\ apiKey = <<>>
    /\ isApiKeyModalOpen
    /\ apiKeyModal = [value |-> <<" ">>, error |-> "API key is required"]

====
